---- MODULE Spec2Model ----
(***************************************************************************)
(* A model of the OPC UA server core of drahnr/opcua:                      *)
(*   - comms::message_buffer::MessageBuffer (byte stream -> messages)      *)
(*   - address_space::base::Base (the attribute table of a node)           *)
(* Each subsystem has its own specification (SpecBuf, SpecNode); the       *)
(* variables of the other subsystem stay at their initial values.          *)
(***************************************************************************)
EXTENDS Integers, Sequences, FiniteSets, TLC

VARIABLES
    \* ---- MessageBuffer ----
    frames,      \* the frames the peer sends, in order (the input of a run)
    stream,      \* the bytes of those frames, as they arrive on the socket
    fed,         \* number of bytes of the input passed to store_bytes so far
    in_buffer,   \* MessageBuffer.in_buffer
    returned,    \* concatenation of the lists returned by the Ok calls so far
    failed,      \* some call of store_bytes returned Err
    last,        \* the result of the last call of store_bytes
    \* ---- address_space::Base ----
    attributes,          \* Base.attributes: 22 slots of Option<DataValue>
    attribute_getters,   \* Base.attribute_getters: AttributeId -> getter, if any
    attribute_setters,   \* Base.attribute_setters: AttributeId -> setter, if any
    setter_calls,        \* the (attribute_id, value) pairs passed to setters so far
    target,              \* the attribute the operations of this run address
    node_ops,            \* number of operations performed on the node
    node_status,         \* "ok", or how the thread using the node ended
    node_last,           \* the last operation on the node and what it returned
    \* ---- services::method::MethodService ----
    call_pc,             \* "idle" before MethodService::call, "done" after it
    call_request,        \* CallRequest.methods_to_call of the call
    call_invoked,        \* the entries passed to address_space.call_method, in order
    call_response,       \* what MethodService::call returned
    \* ---- server::Server ----
    abort,               \* ServerState.abort
    state,               \* ServerState.state: "Shutdown" or "Running"
    connections,         \* Server.connections, in order of registration
    terminated,          \* the connections whose is_session_terminated() is true
    transport_locked,    \* the connections whose RwLock is held by their transport
    server_lock,         \* who holds the write lock of the Server: "free" or a task
    run_pc,              \* Server::run: "created", "unresolved", "listening", "ended"
    accept_pc,           \* the accept handler: "idle", "socket", "locked"
    sockets,             \* number of sockets the listener has yielded
    poll_pc,             \* the abort-poll task: "unspawned", "waiting", "locked",
                         \* "sending", "ended"
    abort_signals,       \* units sent on the abort channel (tx_abort)
    pending_polling_actions, \* Server.pending_polling_actions, in order of arrival
    started_actions,     \* the polling actions passed to PollingAction::spawn, in order
    added_actions,       \* number of calls of add_polling_action so far
    discovery_server_url,\* ServerConfig.discovery_server_url: Option<String>
    now,                 \* the clock, in minutes since the Server was created
    discovery_timer,     \* the instant the registration interval fires next, if started
    registrations,       \* the instants of the registration attempts so far
    \* ---- the locks of the server lifecycle ----
    lock_todo,           \* per code path: the lock operations it still has to do
    lock_held,           \* per code path: the locks it holds, in order of acquisition
    lock_done,           \* the one-shot code paths (new, run) that have completed
    \* ---- generated wire records ----
    wire_value,          \* the record handed to encode
    wire_pc,             \* "idle", "fresh", "encoded", "decoded"
    wire_bytes,          \* the stream encode wrote
    wire_written,        \* the size encode reported
    wire_decoded         \* what decode returned from that stream

bufVars == <<frames, stream, fed, in_buffer, returned, failed, last>>

nodeVars == <<attributes, attribute_getters, attribute_setters, setter_calls,
              target, node_ops, node_status, node_last>>

methodVars == <<call_pc, call_request, call_invoked, call_response>>

lockVars == <<lock_todo, lock_held, lock_done>>

codecVars == <<wire_value, wire_pc, wire_bytes, wire_written, wire_decoded>>

serverVars == <<abort, state, connections, terminated, transport_locked, server_lock,
                run_pc, accept_pc, sockets, poll_pc, abort_signals,
                pending_polling_actions, started_actions, added_actions,
                discovery_server_url, now, discovery_timer, registrations>>

vars == <<frames, stream, fed, in_buffer, returned, failed, last,
          attributes, attribute_getters, attribute_setters, setter_calls,
          target, node_ops, node_status, node_last,
          call_pc, call_request, call_invoked, call_response,
          abort, state, connections, terminated, transport_locked, server_lock,
          run_pc, accept_pc, sockets, poll_pc, abort_signals,
          pending_polling_actions, started_actions, added_actions,
          discovery_server_url, now, discovery_timer, registrations,
          lock_todo, lock_held, lock_done,
          wire_value, wire_pc, wire_bytes, wire_written, wire_decoded>>

\* Option<T>: None is the empty sequence, Some(x) the one-element sequence.
None == <<>>

Some(x) == <<x>>

(***************************************************************************)
(* Bytes and the primitive codecs (UA Binary, little-endian)               *)
(***************************************************************************)

\* A u32 is kept as its two 16-bit halves: the model checker's integers are
\* 32-bit signed, and status codes and null-string lengths have the top bit set.
ToU32(n) == [lo |-> n % 65536, hi |-> n \div 65536]

\* UInt32::encode: four bytes, least significant first.
U32Bytes(u) == << u.lo % 256, u.lo \div 256, u.hi % 256, u.hi \div 256 >>

\* UInt32::decode at offset off (0-based) of b; the caller checks the length.
U32At(b, off) ==
    [lo |-> b[off + 1] + 256 * b[off + 2], hi |-> b[off + 3] + 256 * b[off + 4]]

\* "as usize". A value of 2^31 or more is clamped to 2^31 - 1: no buffer of the
\* model holds that many bytes, so every comparison with a length is unchanged.
AsUsize(u) == IF u.hi >= 32768 THEN 2147483647 ELSE u.hi * 65536 + u.lo

\* Int32::decode of a length prefix: two's complement of the u32.
AsI32(u) == IF u.hi >= 32768 THEN (u.hi - 65536) * 65536 + u.lo ELSE u.hi * 65536 + u.lo

\* The u32 -1 (0xFFFFFFFF), the length prefix of a null string.
MinusOne == [lo |-> 65535, hi |-> 65535]

\* ASCII codes of the letters used by the message types.
Ch == [A |-> 65, C |-> 67, E |-> 69, F |-> 70, G |-> 71, H |-> 72, K |-> 75,
       L |-> 76, M |-> 77, N |-> 78, O |-> 79, P |-> 80, R |-> 82, S |-> 83,
       X |-> 88]

MESSAGE_HEADER_LEN == 8

MAX_STRING_LENGTH == 65536

\* The maximum message size of the handshake (Acknowledge maxmsg of the spec).
MaxMessageSize == 65536

TailFrom(b, off) == SubSeq(b, off + 1, Len(b))

\* MessageHeader::message_type: 3 ASCII bytes and the chunk-type byte.
MessageTypeOf(b) ==
    LET t == SubSeq(b, 1, 3)
        c == b[4]
    IN  IF c \notin {Ch.F, Ch.C, Ch.A} THEN "Invalid"
        ELSE IF t = <<Ch.H, Ch.E, Ch.L>> THEN "Hello"
        ELSE IF t = <<Ch.A, Ch.C, Ch.K>> THEN "Acknowledge"
        ELSE IF t = <<Ch.E, Ch.R, Ch.R>> THEN "Error"
        ELSE IF t \in {<<Ch.M, Ch.S, Ch.G>>, <<Ch.O, Ch.P, Ch.N>>, <<Ch.C, Ch.L, Ch.O>>} THEN "Chunk"
        ELSE "Invalid"

\* MessageHeader::decode: BadDecodingError on short input.
DecodeHeader(b) ==
    IF Len(b) < MESSAGE_HEADER_LEN
    THEN [ok |-> FALSE, err |-> "BadDecodingError"]
    ELSE [ok |-> TRUE,
          header |-> [message_type |-> MessageTypeOf(b),
                      chunk_type |-> b[4],
                      tag |-> SubSeq(b, 1, 3),
                      message_size |-> U32At(b, 4)]]

\* UAString::decode at offset off: i32 length, -1 is the null string.
DecodeString(b, off) ==
    IF Len(b) < off + 4 THEN [ok |-> FALSE, err |-> "BadDecodingError"]
    ELSE LET n == AsI32(U32At(b, off)) IN
         IF n = -1 THEN [ok |-> TRUE, value |-> None, next |-> off + 4]
         ELSE IF n < -1 THEN [ok |-> FALSE, err |-> "BadDecodingError"]
         ELSE IF n > MAX_STRING_LENGTH THEN [ok |-> FALSE, err |-> "BadEncodingLimitsExceeded"]
         ELSE IF Len(b) < off + 4 + n THEN [ok |-> FALSE, err |-> "BadDecodingError"]
         ELSE [ok |-> TRUE, value |-> Some(SubSeq(b, off + 5, off + 4 + n)), next |-> off + 4 + n]

EncodeString(s) ==
    IF s = None THEN U32Bytes(MinusOne) ELSE U32Bytes(ToU32(Len(s[1]))) \o s[1]

(***************************************************************************)
(* The handshake messages and the chunk (comms::handshake, message_chunk)  *)
(***************************************************************************)

HeaderBytes(tag, chunk_type, size) == tag \o <<chunk_type>> \o U32Bytes(ToU32(size))

\* The five u32 fields shared by Hello and Acknowledge, read after the header.
DecodeLimits(b) ==
    [protocol_version |-> U32At(b, 8), receive_buffer_size |-> U32At(b, 12),
     send_buffer_size |-> U32At(b, 16), max_message_size |-> U32At(b, 20),
     max_chunk_count |-> U32At(b, 24)]

EncodeLimits(l) ==
    U32Bytes(l.protocol_version) \o U32Bytes(l.receive_buffer_size)
    \o U32Bytes(l.send_buffer_size) \o U32Bytes(l.max_message_size)
    \o U32Bytes(l.max_chunk_count)

\* HelloMessage::decode: header, five u32, endpoint_url.
DecodeHello(b) ==
    LET h == DecodeHeader(b) IN
    IF ~h.ok THEN h
    ELSE IF Len(b) < 28 THEN [ok |-> FALSE, err |-> "BadDecodingError"]
    ELSE LET u == DecodeString(b, 28) IN
         IF ~u.ok THEN [ok |-> FALSE, err |-> u.err]
         ELSE [ok |-> TRUE,
               message |-> [kind |-> "Hello", message_header |-> h.header,
                            limits |-> DecodeLimits(b), text |-> u.value]]

\* AcknowledgeMessage::decode: header, five u32.
DecodeAcknowledge(b) ==
    LET h == DecodeHeader(b) IN
    IF ~h.ok THEN h
    ELSE IF Len(b) < 28 THEN [ok |-> FALSE, err |-> "BadDecodingError"]
    ELSE [ok |-> TRUE,
          message |-> [kind |-> "Acknowledge", message_header |-> h.header,
                       limits |-> DecodeLimits(b)]]

\* ErrorMessage::decode: header, status code, reason.
DecodeError(b) ==
    LET h == DecodeHeader(b) IN
    IF ~h.ok THEN h
    ELSE IF Len(b) < 12 THEN [ok |-> FALSE, err |-> "BadDecodingError"]
    ELSE LET r == DecodeString(b, 12) IN
         IF ~r.ok THEN [ok |-> FALSE, err |-> r.err]
         ELSE [ok |-> TRUE,
               message |-> [kind |-> "Error", message_header |-> h.header,
                            error |-> U32At(b, 8), text |-> r.value]]

\* MessageChunk::decode: header, secure channel id, then the bytes up to message_size.
DecodeChunk(b) ==
    LET h == DecodeHeader(b) IN
    IF ~h.ok THEN h
    ELSE IF Len(b) < 12 \/ Len(b) < AsUsize(h.header.message_size)
         THEN [ok |-> FALSE, err |-> "BadDecodingError"]
    ELSE [ok |-> TRUE,
          message |-> [kind |-> "MessageChunk", message_header |-> h.header,
                       secure_channel_id |-> U32At(b, 8),
                       data |-> SubSeq(b, 13, AsUsize(h.header.message_size))]]

\* BinaryEncoder::encode of each message; message_size is the encoded length.
EncodeBody(m) ==
    CASE m.kind = "Hello" -> EncodeLimits(m.limits) \o EncodeString(m.text)
      [] m.kind = "Acknowledge" -> EncodeLimits(m.limits)
      [] m.kind = "Error" -> U32Bytes(m.error) \o EncodeString(m.text)
      [] m.kind = "MessageChunk" -> U32Bytes(m.secure_channel_id) \o m.data

Encode(m) ==
    HeaderBytes(m.message_header.tag, m.message_header.chunk_type,
                AsUsize(m.message_header.message_size)) \o EncodeBody(m)

(***************************************************************************)
(* MessageBuffer::store_bytes                                              *)
(***************************************************************************)

\* The match without its catch-all arm: an unknown type is read as a chunk.
DecodeMessageNoCatchAll(message_type, message_buffer) ==
    CASE message_type = "Acknowledge" -> DecodeAcknowledge(message_buffer)
      [] message_type = "Hello" -> DecodeHello(message_buffer)
      [] message_type = "Error" -> DecodeError(message_buffer)
      [] OTHER -> DecodeChunk(message_buffer)

\* The match on message_header.message_type (message_buffer.rs 56-62).
DecodeMessage(message_type, message_buffer) ==
    CASE message_type = "Acknowledge" -> DecodeAcknowledge(message_buffer)
      [] message_type = "Hello" -> DecodeHello(message_buffer)
      [] message_type = "Error" -> DecodeError(message_buffer)
      [] message_type = "Chunk" -> DecodeChunk(message_buffer)
      [] OTHER -> [ok |-> FALSE, err |-> "BadCommunicationError"]

\* The loop guard of store_bytes.
LoopGuard(buffer) == Len(buffer) > MESSAGE_HEADER_LEN

\* The completeness test off by one: a message exactly complete is left waiting.
NotYetCompleteOffByOne(incoming_buffer_len, message_size) ==
    incoming_buffer_len <= message_size

\* "Test if message bytes are there yet": TRUE when the loop breaks.
NotYetComplete(incoming_buffer_len, message_size) == incoming_buffer_len < message_size

\* drain with the range one byte too short at the far end.
DrainOneLess(buffer, message_size) ==
    [taken |-> SubSeq(buffer, 1, message_size),
     left |-> IF message_size = 0 THEN buffer ELSE TailFrom(buffer, message_size - 1)]

\* The message copied out of the buffer without being removed from it.
DrainKeepsBytes(buffer, message_size) ==
    [taken |-> SubSeq(buffer, 1, message_size), left |-> buffer]

\* drain with the range one byte too long at the far end.
DrainOneMore(buffer, message_size) ==
    [taken |-> SubSeq(buffer, 1, message_size), left |-> TailFrom(buffer, message_size + 1)]

\* in_buffer.drain(0..message_size): the bytes taken and the bytes left.
Drain(buffer, message_size) ==
    [taken |-> SubSeq(buffer, 1, message_size), left |-> TailFrom(buffer, message_size)]

\* The while loop of store_bytes, from a buffer and the messages found so far.
RECURSIVE StoreLoop(_, _)
StoreLoop(buffer, messages) ==
    IF ~LoopGuard(buffer)
    THEN [ok |-> TRUE, buffer |-> buffer, messages |-> messages, err |-> "Good"]
    ELSE LET h == DecodeHeader(buffer) IN
         IF ~h.ok
         THEN [ok |-> FALSE, buffer |-> buffer, messages |-> <<>>, err |-> h.err]
         ELSE LET message_size == AsUsize(h.header.message_size) IN
              IF NotYetComplete(Len(buffer), message_size)
              THEN [ok |-> TRUE, buffer |-> buffer, messages |-> messages, err |-> "Good"]
              ELSE LET d == Drain(buffer, message_size)
                       m == DecodeMessage(h.header.message_type, d.taken)
                   IN  IF ~m.ok
                       THEN [ok |-> FALSE, buffer |-> d.left, messages |-> <<>>, err |-> m.err]
                       ELSE StoreLoop(d.left, Append(messages, m.message))

\* store_bytes(bytes): extend the buffer, then run the loop.
StoreBytesResult(buffer, bytes) == StoreLoop(buffer \o bytes, <<>>)

(***************************************************************************)
(* address_space::base::Base: the attribute table of a node                *)
(***************************************************************************)

NUM_ATTRIBUTES == 22

\* AttributeId, in the order of its discriminants 1..22.
AttributeIdSeq ==
    << "NodeId", "NodeClass", "BrowseName", "DisplayName", "Description",
       "WriteMask", "UserWriteMask", "IsAbstract", "Symmetric", "InverseName",
       "ContainsNoLoops", "EventNotifier", "Value", "DataType", "ValueRank",
       "ArrayDimensions", "AccessLevel", "UserAccessLevel",
       "MinimumSamplingInterval", "Historizing", "Executable", "UserExecutable" >>

AttributeIds == {AttributeIdSeq[i] : i \in 1..Len(AttributeIdSeq)}

\* "attribute_id as usize"
AttributeIdNum(attribute_id) ==
    CHOOSE i \in 1..Len(AttributeIdSeq) : AttributeIdSeq[i] = attribute_id

\* attribute_idx without the "- 1".
AttributeIdxNoOffset(attribute_id) == AttributeIdNum(attribute_id)

\* Base::attribute_idx
AttributeIdx(attribute_id) == AttributeIdNum(attribute_id) - 1

\* Variant: a type tag and a payload.
Var(type, val) == [type |-> type, val |-> val]

\* DataValue; the timestamps and picoseconds travel with the value and are never
\* read by Base, so they are left out.
DataValueOf(value) == [value |-> value, status |-> Some("Good")]

\* is_valid_value_type!(data_value, variant_type)
IsValidValueType(data_value, variant_type) ==
    IF data_value.value # None
    THEN data_value.value[1].type = variant_type
    ELSE FALSE

\* The ArrayDimensions arm without the scan of the elements.
IsValidArrayDimensionsAnyArray(value) == IsValidValueType(value, "Array")

\* The ArrayDimensions arm: an Array whose elements are all UInt32.
IsValidArrayDimensions(value) ==
    IF ~IsValidValueType(value, "Array") THEN FALSE
    ELSE LET array == value.value[1].val IN
         ~(\E i \in 1..Len(array) : array[i].type # "UInt32")

\* The type table with the Boolean arm accepting any present value.
TypeIsValidLaxBoolean(attribute_id, value) ==
    CASE attribute_id \in {"NodeId", "NodeClass"} -> FALSE
      [] attribute_id = "BrowseName" -> IsValidValueType(value, "String")
      [] attribute_id \in {"DisplayName", "Description", "InverseName"} ->
            IsValidValueType(value, "LocalizedText")
      [] attribute_id \in {"WriteMask", "UserWriteMask"} -> IsValidValueType(value, "UInt32")
      [] attribute_id \in {"IsAbstract", "Symmetric", "ContainsNoLoops", "Historizing",
                           "Executable", "UserExecutable"} -> value.value # None
      [] attribute_id \in {"EventNotifier", "AccessLevel", "UserAccessLevel"} ->
            IsValidValueType(value, "Byte")
      [] attribute_id = "DataType" -> IsValidValueType(value, "NodeId")
      [] attribute_id = "ValueRank" -> IsValidValueType(value, "Int32")
      [] attribute_id = "ArrayDimensions" -> IsValidArrayDimensions(value)
      [] attribute_id = "MinimumSamplingInterval" -> IsValidValueType(value, "Double")
      [] attribute_id = "Value" -> TRUE

\* set_attribute: "Check the type of the datavalue" (base.rs 136-186).
TypeIsValid(attribute_id, value) ==
    CASE attribute_id \in {"NodeId", "NodeClass"} -> FALSE
      [] attribute_id = "BrowseName" -> IsValidValueType(value, "String")
      [] attribute_id \in {"DisplayName", "Description", "InverseName"} ->
            IsValidValueType(value, "LocalizedText")
      [] attribute_id \in {"WriteMask", "UserWriteMask"} -> IsValidValueType(value, "UInt32")
      [] attribute_id \in {"IsAbstract", "Symmetric", "ContainsNoLoops", "Historizing",
                           "Executable", "UserExecutable"} ->
            IsValidValueType(value, "Boolean")
      [] attribute_id \in {"EventNotifier", "AccessLevel", "UserAccessLevel"} ->
            IsValidValueType(value, "Byte")
      [] attribute_id = "DataType" -> IsValidValueType(value, "NodeId")
      [] attribute_id = "ValueRank" -> IsValidValueType(value, "Int32")
      [] attribute_id = "ArrayDimensions" -> IsValidArrayDimensions(value)
      [] attribute_id = "MinimumSamplingInterval" -> IsValidValueType(value, "Double")
      [] attribute_id = "Value" -> TRUE

\* The status code set_attribute returns when type_is_valid is false.
TypeInvalidStatus == "BadTypeMismatch"

\* The table slot of an attribute (find_attribute, base.rs 124-130).
TableSlot(attrs, attribute_id) ==
    LET attribute_idx == AttributeIdx(attribute_id) IN
    IF attribute_idx >= Len(attrs) THEN None ELSE attrs[attribute_idx + 1]

\* What a registered getter answers: Ok(Some(v)), Ok(None) or Err.
GetterKinds == {"some", "none", "err"}

GetterValue == DataValueOf(Some(Var("String", "from getter")))

\* "if value.is_ok() { value.unwrap() } else { None }"
GetterAnswer(kind) == IF kind = "some" THEN Some(GetterValue) ELSE None

\* What a registered setter answers: Ok(()) or Err(status).
SetterKinds == {"ok", "err"}

SetterAnswer(kind) == IF kind = "ok" THEN "Good" ELSE "BadUserAccessDenied"

\* find_attribute_value_mandatory!(self, attr, type) on the value find_attribute
\* gave: the payload, or the panic for a missing or wrongly typed attribute.
MandatoryValue(found, variant_type) ==
    IF found # None /\ IsValidValueType(found[1], variant_type)
    THEN [outcome |-> "return", value |-> found[1].value[1].val]
    ELSE [outcome |-> "panic"]

\* How a call ends when it locks a mutex its own thread already holds: std's Mutex
\* may deadlock or panic there.
RelockOutcomes == {"deadlock", "panic"}

\* Base::node_id, called with the getter or setter of another attribute locked.
\* With a getter registered for NodeId, find_attribute(NodeId) locks that getter
\* and calls node_id() again before invoking it: the lock is taken twice.
NodeIdCall(attrs, getters) ==
    IF getters["NodeId"] # None
    THEN [outcome |-> "relock"]
    ELSE MandatoryValue(TableSlot(attrs, "NodeId"), "NodeId")

\* Base::find_attribute: the getter if one is registered, else the table.
FindAttribute(attrs, getters, attribute_id) ==
    IF getters[attribute_id] # None
    THEN LET n == NodeIdCall(attrs, getters) IN
         IF n.outcome # "return" THEN n
         ELSE [outcome |-> "return", value |-> GetterAnswer(getters[attribute_id][1])]
    ELSE [outcome |-> "return", value |-> TableSlot(attrs, attribute_id)]

\* set_attribute storing into the slot numbered by the attribute id itself
\* (attribute_id as usize, without the - 1).
SetAttributeResultWrongSlot(attrs, getters, setters, attribute_id, value) ==
    IF ~TypeIsValid(attribute_id, value)
    THEN [outcome |-> "return", status |-> TypeInvalidStatus, attrs |-> attrs,
          setter_called |-> FALSE]
    ELSE IF setters[attribute_id] # None
    THEN LET n == NodeIdCall(attrs, getters) IN
         IF n.outcome # "return"
         THEN [outcome |-> n.outcome, status |-> "none", attrs |-> attrs,
               setter_called |-> FALSE]
         ELSE [outcome |-> "return", status |-> SetterAnswer(setters[attribute_id][1]),
               attrs |-> attrs, setter_called |-> TRUE]
    ELSE [outcome |-> "return", status |-> "Good",
          attrs |-> [attrs EXCEPT ![(AttributeIdNum(attribute_id) % NUM_ATTRIBUTES) + 1] =
                                      Some(value)],
          setter_called |-> FALSE]

\* Base::set_attribute on (attrs, getters, setters): the result and the new table.
\* status "Good" stands for Ok(()).
SetAttributeResult(attrs, getters, setters, attribute_id, value) ==
    IF ~TypeIsValid(attribute_id, value)
    THEN [outcome |-> "return", status |-> TypeInvalidStatus, attrs |-> attrs,
          setter_called |-> FALSE]
    ELSE IF setters[attribute_id] # None
    THEN LET n == NodeIdCall(attrs, getters) IN
         IF n.outcome # "return"
         THEN [outcome |-> n.outcome, status |-> "none", attrs |-> attrs,
               setter_called |-> FALSE]
         ELSE [outcome |-> "return", status |-> SetterAnswer(setters[attribute_id][1]),
               attrs |-> attrs, setter_called |-> TRUE]
    ELSE [outcome |-> "return", status |-> "Good",
          attrs |-> [attrs EXCEPT ![AttributeIdx(attribute_id) + 1] = Some(value)],
          setter_called |-> FALSE]

\* NodeClass as i32 (ObjectType is 8).
NodeClassObjectType == 8

\* Base::new: the mandatory attributes, then those of the node kind.
BaseNew(node_class, extra) ==
    LET attributes_to_add ==
            << <<"NodeClass", Var("Int32", node_class)>>,
               <<"NodeId", Var("NodeId", "ns=1;s=node")>>,
               <<"DisplayName", Var("LocalizedText", "display")>>,
               <<"BrowseName", Var("QualifiedName", "browse")>>,
               <<"Description", Var("LocalizedText", "description")>>,
               <<"WriteMask", Var("UInt32", 0)>>,
               <<"UserWriteMask", Var("UInt32", 0)>> >> \o extra
        Last(attribute_id) ==
            CHOOSE i \in 1..Len(attributes_to_add) :
                /\ attributes_to_add[i][1] = attribute_id
                /\ \A j \in (i + 1)..Len(attributes_to_add) :
                       attributes_to_add[j][1] # attribute_id
    IN  [idx \in 1..NUM_ATTRIBUTES |->
            IF \E i \in 1..Len(attributes_to_add) :
                   attributes_to_add[i][1] = AttributeIdSeq[idx]
            THEN Some(DataValueOf(Some(attributes_to_add[Last(AttributeIdSeq[idx])][2])))
            ELSE None]

\* ObjectType::new: IsAbstract on top of the mandatory attributes.
ObjectTypeNew(is_abstract) ==
    BaseNew(NodeClassObjectType, << <<"IsAbstract", Var("Boolean", is_abstract)>> >>)

NoCallbacks == [a \in AttributeIds |-> None]

NoNodeOp == [op |-> "none", attribute_id |-> "none", value |-> DataValueOf(None),
             status |-> "none", found |-> [outcome |-> "none"]]

\* The node while another subsystem is being exercised.
NodeIdle ==
    /\ attributes = ObjectTypeNew(FALSE)
    /\ attribute_getters = NoCallbacks
    /\ attribute_setters = NoCallbacks
    /\ setter_calls = <<>>
    /\ target = "NodeId"
    /\ node_ops = 0
    /\ node_status = "ok"
    /\ node_last = NoNodeOp

\* No CallRequest has been served.
MethodIdle ==
    /\ call_pc = "idle"
    /\ call_request = None
    /\ call_invoked = <<>>
    /\ call_response = None

\* Server::new: abort false, state Shutdown, no connection, nothing running yet.
\* Server::new(config): the state after construction, for a configuration with
\* the given discovery_server_url.
ServerCreated(url) ==
    /\ abort = FALSE
    /\ state = "Shutdown"
    /\ connections = <<>>
    /\ terminated = {}
    /\ transport_locked = {}
    /\ server_lock = "free"
    /\ run_pc = "created"
    /\ accept_pc = "idle"
    /\ sockets = 0
    /\ poll_pc = "unspawned"
    /\ abort_signals = 0
    /\ pending_polling_actions = <<>>
    /\ started_actions = <<>>
    /\ added_actions = 0
    /\ discovery_server_url = url
    /\ now = 0
    /\ discovery_timer = None
    /\ registrations = <<>>

\* A server created from a configuration without a discovery server.
ServerNew == ServerCreated(None)

\* No code path of the lifecycle is followed lock by lock.
LocksIdle ==
    /\ lock_todo = <<>>
    /\ lock_held = <<>>
    /\ lock_done = {}

\* No wire record is being encoded.
CodecIdle ==
    /\ wire_value = None
    /\ wire_pc = "idle"
    /\ wire_bytes = <<>>
    /\ wire_written = 0
    /\ wire_decoded = None

(***************************************************************************)
(* The inputs of a run: frames on the wire                                 *)
(***************************************************************************)

\* Number of frames the peer sends in one run.
MaxFrames == 2

MkHeader(tag, chunk_type, size) ==
    [message_type |-> MessageTypeOf(tag \o <<chunk_type>>), chunk_type |-> chunk_type,
     tag |-> tag, message_size |-> ToU32(size)]

\* A message with the message_size its encoding has.
Sized(m) ==
    [m EXCEPT !.message_header.message_size =
                  ToU32(MESSAGE_HEADER_LEN + Len(EncodeBody(m)))]

HelloMsg ==
    Sized([kind |-> "Hello", message_header |-> MkHeader(<<Ch.H, Ch.E, Ch.L>>, Ch.F, 0),
           limits |-> [protocol_version |-> ToU32(0), receive_buffer_size |-> ToU32(8192),
                       send_buffer_size |-> ToU32(8192), max_message_size |-> ToU32(0),
                       max_chunk_count |-> ToU32(0)],
           text |-> Some(<<Ch.O, Ch.P>>)])

AckMsg ==
    Sized([kind |-> "Acknowledge", message_header |-> MkHeader(<<Ch.A, Ch.C, Ch.K>>, Ch.F, 0),
           limits |-> [protocol_version |-> ToU32(0), receive_buffer_size |-> ToU32(8192),
                       send_buffer_size |-> ToU32(8192),
                       max_message_size |-> ToU32(MaxMessageSize),
                       max_chunk_count |-> ToU32(5)]])

ErrorMsg ==
    Sized([kind |-> "Error", message_header |-> MkHeader(<<Ch.E, Ch.R, Ch.R>>, Ch.F, 0),
           error |-> [lo |-> 0, hi |-> 32774], text |-> None])

ChunkMsg ==
    Sized([kind |-> "MessageChunk", message_header |-> MkHeader(<<Ch.M, Ch.S, Ch.G>>, Ch.C, 0),
           secure_channel_id |-> ToU32(1), data |-> <<7>>])

\* The well-formed frames (encodings of messages) and the malformed ones.
ValidFrames == {"hello", "ack", "error", "chunk"}

FrameIds == ValidFrames \cup {"badtype", "empty", "zero", "short", "large"}

FrameMessage(f) ==
    CASE f = "hello" -> HelloMsg
      [] f = "ack" -> AckMsg
      [] f = "error" -> ErrorMsg
      [] f = "chunk" -> ChunkMsg

FrameBytes(f) ==
    CASE f \in ValidFrames -> Encode(FrameMessage(f))
      \* an unknown message type, 10 bytes long
      [] f = "badtype" -> HeaderBytes(<<Ch.X, Ch.X, Ch.X>>, Ch.F, 10) \o <<1, 2>>
      \* message_size = MESSAGE_HEADER_LEN: an empty body
      [] f = "empty" -> HeaderBytes(<<Ch.E, Ch.R, Ch.R>>, Ch.F, MESSAGE_HEADER_LEN)
      \* message_size 0
      [] f = "zero" -> HeaderBytes(<<Ch.A, Ch.C, Ch.K>>, Ch.F, 0)
      \* message_size below the header length
      [] f = "short" -> HeaderBytes(<<Ch.M, Ch.S, Ch.G>>, Ch.F, 4) \o <<3>>
      \* message_size one above the maximum
      [] f = "large" -> HeaderBytes(<<Ch.M, Ch.S, Ch.G>>, Ch.F, MaxMessageSize + 1) \o <<4>>

RECURSIVE Stream(_)
Stream(fs) == IF fs = <<>> THEN <<>> ELSE FrameBytes(Head(fs)) \o Stream(Tail(fs))

FrameSeqs == UNION {[1..n -> FrameIds] : n \in 1..MaxFrames}

NoCall == [called |-> FALSE, ok |-> TRUE, err |-> "Good", messages |-> <<>>]

InitBuf ==
    /\ frames \in FrameSeqs
    /\ stream = Stream(frames)
    /\ fed = 0
    /\ in_buffer = <<>>
    /\ returned = <<>>
    /\ failed = FALSE
    /\ last = NoCall
    /\ NodeIdle
    /\ MethodIdle
    /\ ServerNew
    /\ LocksIdle
    /\ CodecIdle

\* One call of store_bytes with the next n bytes of the input.
StoreBytes ==
    \E n \in 0..(Len(stream) - fed) :
        \E r \in {StoreBytesResult(in_buffer, SubSeq(stream, fed + 1, fed + n))} :
            /\ fed' = fed + n
            /\ in_buffer' = r.buffer
            /\ returned' = IF r.ok THEN returned \o r.messages ELSE returned
            /\ failed' = (failed \/ ~r.ok)
            /\ last' = [called |-> TRUE, ok |-> r.ok, err |-> r.err,
                        messages |-> r.messages]
            /\ UNCHANGED <<frames, stream>>
            /\ UNCHANGED <<nodeVars, methodVars, serverVars, lockVars, codecVars>>

NextBuf == StoreBytes

SpecBuf == InitBuf /\ [][NextBuf]_vars

(***************************************************************************)
(* Properties of the message buffer                                        *)
(***************************************************************************)

AllValid == \A i \in 1..Len(frames) : frames[i] \in ValidFrames

\* Offset in the stream at which the first k frames end.
RECURSIVE Boundary(_)
Boundary(k) == IF k = 0 THEN 0 ELSE Boundary(k - 1) + Len(FrameBytes(frames[k]))

\* Number of frames wholly contained in the first n bytes of the stream.
Completed(n) ==
    CHOOSE k \in 0..Len(frames) :
        /\ Boundary(k) <= n
        /\ (k < Len(frames) => Boundary(k + 1) > n)

FrontSize(buffer) == AsUsize(U32At(buffer, 4))

RECURSIVE SumSizes(_)
SumSizes(ms) ==
    IF ms = <<>> THEN 0
    ELSE AsUsize(Head(ms).message_header.message_size) + SumSizes(Tail(ms))

\* C1: when the input is encode(m1) ++ encode(m2) ++ ... cut in any way, the lists
\* returned so far, concatenated, are the messages whose last byte has been fed, in
\* order (all of them once the input is fed), no call fails, the last call returned
\* the tail of that list, and the buffer holds exactly the bytes of the unfinished
\* message.
C1_SplitFeedYieldsMessages ==
    AllValid =>
        LET k == Completed(fed) IN
        /\ ~failed
        /\ returned = [i \in 1..k |-> FrameMessage(frames[i])]
        /\ in_buffer = SubSeq(stream, Boundary(k) + 1, fed)
        /\ Len(last.messages) <= k
        /\ last.messages = SubSeq(returned, k - Len(last.messages) + 1, k)
        /\ (k = 0 => last.messages = <<>>)

\* Two messages fed in more than one call, the second completed by the last call.
C1_Witness ==
    /\ AllValid
    /\ Len(frames) = 2
    /\ fed = Len(stream)
    /\ returned = <<FrameMessage(frames[1]), FrameMessage(frames[2])>>
    /\ last.messages = <<FrameMessage(frames[2])>>
    /\ in_buffer = <<>>

\* C2 (as claimed): after a call that returns Ok, with no failed call before it,
\* the retained buffer is shorter than the header or shorter than the message_size
\* its header announces.
C2_Claim_NoCompleteMessageRetained ==
    (last.called /\ ~failed) =>
        \/ Len(in_buffer) < MESSAGE_HEADER_LEN
        \/ Len(in_buffer) < FrontSize(in_buffer)

\* C3 (as claimed): a message of message_size = MESSAGE_HEADER_LEN is taken out of
\* the buffer by the call that finds its 8 bytes present.
C3_Claim_EmptyBodyExtracted ==
    (last.called /\ ~failed) =>
        ~(Len(in_buffer) >= MESSAGE_HEADER_LEN /\ FrontSize(in_buffer) = MESSAGE_HEADER_LEN)

\* C4 (as claimed): store_bytes does not return Ok while the header at the front of
\* the buffer (here even with more than 8 bytes buffered) has an unknown type.
C4_Claim_UnknownTypeAlwaysFails ==
    (last.called /\ ~failed /\ Len(in_buffer) > MESSAGE_HEADER_LEN) =>
        MessageTypeOf(in_buffer) # "Invalid"

\* C4 (amended): a call that starts its loop on a buffer of more than 8 bytes whose
\* front header has an unknown type and whose message_size bytes are all present
\* returns Err(BadCommunicationError), and no message list.
C4_UnknownTypeFailsWhenComplete ==
    [][ LET buf0 == in_buffer \o SubSeq(stream, fed + 1, fed') IN
        ( /\ last'.called
          /\ Len(buf0) > MESSAGE_HEADER_LEN
          /\ MessageTypeOf(buf0) = "Invalid"
          /\ Len(buf0) >= FrontSize(buf0) )
        => ( /\ ~last'.ok
             /\ last'.err = "BadCommunicationError"
             /\ last'.messages = <<>>
             /\ returned' = returned ) ]_vars

\* A call has failed on the complete frame of unknown type.
C4_Witness ==
    /\ frames[1] = "badtype"
    /\ last.called
    /\ ~last.ok
    /\ last.err = "BadCommunicationError"
    /\ fed >= Len(FrameBytes("badtype"))

\* C5 (as claimed): store_bytes never returns Ok holding more than a header of a
\* message whose message_size is above the maximum or below the header length.
C5_Claim_SizeOutOfRangeRejected ==
    (last.called /\ ~failed /\ Len(in_buffer) > MESSAGE_HEADER_LEN) =>
        /\ FrontSize(in_buffer) <= MaxMessageSize
        /\ FrontSize(in_buffer) >= MESSAGE_HEADER_LEN

\* C6: while every call has returned Ok, the bytes fed are the bytes of the returned
\* messages (message_size each) plus the bytes still buffered.
C6_BytesAccountedFor ==
    ~failed => fed = SumSizes(returned) + Len(in_buffer)

\* Messages have been returned and part of the next one is buffered.
C6_Witness ==
    /\ ~failed
    /\ Len(returned) >= 1
    /\ Len(in_buffer) > MESSAGE_HEADER_LEN
    /\ fed = SumSizes(returned) + Len(in_buffer)

(***************************************************************************)
(* The node: construction and operations                                   *)
(***************************************************************************)

\* Number of operations on the node in one run.
MaxNodeOps == 3

\* The buffer while the node is being exercised.
BufIdle ==
    /\ frames = <<>>
    /\ stream = <<>>
    /\ fed = 0
    /\ in_buffer = <<>>
    /\ returned = <<>>
    /\ failed = FALSE
    /\ last = NoCall

\* The variants a caller writes: one of each type, and three arrays.
VariantInputs ==
    { Var("Boolean", TRUE), Var("Byte", 1), Var("Int32", 2), Var("UInt32", 3),
      Var("Double", "1.5"), Var("String", "text"), Var("LocalizedText", "localized"),
      Var("QualifiedName", "qualified"), Var("NodeId", "ns=1;s=other"),
      Var("Array", <<>>), Var("Array", <<Var("UInt32", 3)>>),
      Var("Array", <<Var("UInt32", 3), Var("String", "text")>>) }

\* The DataValues a caller writes: each variant, and a DataValue without a value.
DataValueInputs == {DataValueOf(Some(v)) : v \in VariantInputs} \cup {DataValueOf(None)}

\* An operation on an attribute reads and writes that attribute's slot, getter and
\* setter and, through node_id(), those of NodeId. A run addresses one attribute,
\* any of the 22, and NodeId.
Addressed == {target, "NodeId"}

\* A node as its constructor leaves it: Base::new alone, or ObjectType::new.
InitNode ==
    /\ attributes \in {BaseNew(NodeClassObjectType, <<>>), ObjectTypeNew(TRUE)}
    /\ attribute_getters = NoCallbacks
    /\ attribute_setters = NoCallbacks
    /\ setter_calls = <<>>
    /\ target \in AttributeIds
    /\ node_ops = 0
    /\ node_status = "ok"
    /\ node_last = NoNodeOp
    /\ BufIdle
    /\ MethodIdle
    /\ ServerNew
    /\ LocksIdle
    /\ CodecIdle

\* How the calling thread goes on after a call with the given outcome.
EndStatus(outcome) ==
    CASE outcome = "return" -> {"ok"}
      [] outcome = "relock" -> RelockOutcomes
      [] outcome = "panic" -> {"panic"}

\* set_attribute(attribute_id, value), followed by a find_attribute(attribute_id)
\* whose result is recorded in node_last.found.
SetAttribute ==
    /\ node_status = "ok"
    /\ node_ops < MaxNodeOps
    /\ \E attribute_id \in Addressed, value \in DataValueInputs :
         \E r \in {SetAttributeResult(attributes, attribute_getters, attribute_setters,
                                      attribute_id, value)} :
            /\ attributes' = r.attrs
            /\ setter_calls' = IF r.setter_called
                                THEN Append(setter_calls, <<attribute_id, value>>)
                                ELSE setter_calls
            /\ node_status' \in EndStatus(r.outcome)
            /\ node_last' = [op |-> "set_attribute", attribute_id |-> attribute_id,
                             value |-> value, status |-> r.status,
                             found |-> FindAttribute(r.attrs, attribute_getters,
                                                     attribute_id)]
    /\ node_ops' = node_ops + 1
    /\ UNCHANGED <<attribute_getters, attribute_setters, target>>
    /\ UNCHANGED <<bufVars, methodVars, serverVars, lockVars, codecVars>>

\* set_attribute_getter(attribute_id, getter)
SetAttributeGetter ==
    /\ node_status = "ok"
    /\ node_ops < MaxNodeOps
    /\ \E attribute_id \in Addressed, kind \in GetterKinds :
            /\ attribute_getters' = [attribute_getters EXCEPT ![attribute_id] = Some(kind)]
            /\ node_last' = [NoNodeOp EXCEPT !.op = "set_attribute_getter",
                                             !.attribute_id = attribute_id]
    /\ node_ops' = node_ops + 1
    /\ UNCHANGED <<attributes, attribute_setters, setter_calls, node_status, target>>
    /\ UNCHANGED <<bufVars, methodVars, serverVars, lockVars, codecVars>>

\* set_attribute_setter(attribute_id, setter)
SetAttributeSetter ==
    /\ node_status = "ok"
    /\ node_ops < MaxNodeOps
    /\ \E attribute_id \in Addressed, kind \in SetterKinds :
            /\ attribute_setters' = [attribute_setters EXCEPT ![attribute_id] = Some(kind)]
            /\ node_last' = [NoNodeOp EXCEPT !.op = "set_attribute_setter",
                                             !.attribute_id = attribute_id]
    /\ node_ops' = node_ops + 1
    /\ UNCHANGED <<attributes, attribute_getters, setter_calls, node_status, target>>
    /\ UNCHANGED <<bufVars, methodVars, serverVars, lockVars, codecVars>>

NextNode == SetAttribute \/ SetAttributeGetter \/ SetAttributeSetter

SpecNode == InitNode /\ [][NextNode]_vars

(***************************************************************************)
(* The node: write_mask and user_write_mask                                *)
(***************************************************************************)

\* find_attribute_value_optional!(self, attr, type) on the result of find_attribute:
\* the payload when the attribute is there with that type, None otherwise.
OptionalValue(found, variant_type) ==
    IF found.outcome # "return" THEN found
    ELSE IF found.value # None /\ IsValidValueType(found.value[1], variant_type)
    THEN [outcome |-> "return", value |-> Some(found.value[1].value[1].val)]
    ELSE [outcome |-> "return", value |-> None]

\* write_mask() and user_write_mask()
WriteMaskCall(attrs, getters, attribute_id) ==
    OptionalValue(FindAttribute(attrs, getters, attribute_id), "UInt32")

MaskIds == {"WriteMask", "UserWriteMask"}

\* The masks a caller sets.
MaskInputs == {0, 5}

MaskOp(attribute_id) ==
    IF attribute_id = "WriteMask" THEN "set_write_mask" ELSE "set_user_write_mask"

\* A node whose run addresses WriteMask or UserWriteMask.
InitMask ==
    /\ InitNode
    /\ target \in MaskIds

\* set_write_mask(m) / set_user_write_mask(m): set_attribute with its result
\* discarded ("let _ ="), followed by write_mask() / user_write_mask(), whose result
\* is recorded in node_last.found. node_last.status is the discarded result.
SetWriteMask ==
    /\ node_status = "ok"
    /\ node_ops < MaxNodeOps
    /\ target \in MaskIds
    /\ \E write_mask \in MaskInputs :
         \E r \in {SetAttributeResult(attributes, attribute_getters, attribute_setters,
                                      target, DataValueOf(Some(Var("UInt32", write_mask))))} :
            /\ attributes' = r.attrs
            /\ setter_calls' = IF r.setter_called
                                THEN Append(setter_calls,
                                            <<target, DataValueOf(Some(Var("UInt32", write_mask)))>>)
                                ELSE setter_calls
            /\ node_status' \in EndStatus(r.outcome)
            /\ node_last' = [op |-> MaskOp(target), attribute_id |-> target,
                             value |-> DataValueOf(Some(Var("UInt32", write_mask))),
                             status |-> r.status,
                             found |-> WriteMaskCall(r.attrs, attribute_getters, target)]
    /\ node_ops' = node_ops + 1
    /\ UNCHANGED <<attribute_getters, attribute_setters, target>>
    /\ UNCHANGED <<bufVars, methodVars, serverVars, lockVars, codecVars>>

NextMask == SetWriteMask \/ SetAttribute \/ SetAttributeGetter \/ SetAttributeSetter

SpecMask == InitMask /\ [][NextMask]_vars

(***************************************************************************)
(* Properties of the node                                                  *)
(***************************************************************************)

Returned(value) == [outcome |-> "return", value |-> value]

\* The variant type the specification fixes for a writable attribute other than
\* Value (section 4.5, "Typed attribute validation").
FixedType(attribute_id) ==
    CASE attribute_id = "BrowseName" -> "String"
      [] attribute_id \in {"DisplayName", "Description", "InverseName"} -> "LocalizedText"
      [] attribute_id \in {"WriteMask", "UserWriteMask"} -> "UInt32"
      [] attribute_id \in {"IsAbstract", "Symmetric", "ContainsNoLoops", "Historizing",
                           "Executable", "UserExecutable"} -> "Boolean"
      [] attribute_id \in {"EventNotifier", "AccessLevel", "UserAccessLevel"} -> "Byte"
      [] attribute_id = "DataType" -> "NodeId"
      [] attribute_id = "ValueRank" -> "Int32"
      [] attribute_id = "MinimumSamplingInterval" -> "Double"
      [] attribute_id = "ArrayDimensions" -> "Array"

HasFixedType == AttributeIds \ {"NodeId", "NodeClass", "Value"}

\* The value is absent, or its variant type is not the one fixed for the attribute.
Mismatch(attribute_id, data_value) ==
    /\ attribute_id \in HasFixedType
    /\ \/ data_value.value = None
       \/ data_value.value[1].type # FixedType(attribute_id)

\* C7 (as claimed): whenever set_attribute(id, v) returns Ok, the find_attribute(id)
\* that follows returns Some(v), with or without a getter or setter registered.
C7_Claim_SetThenFind ==
    (node_last.op = "set_attribute" /\ node_last.status = "Good") =>
        node_last.found = Returned(Some(node_last.value))

\* C7 (amended): whenever set_attribute(id, v) returns Ok and neither a getter nor a
\* setter is registered for id, the find_attribute(id) that follows returns Some(v).
C7_SetThenFindWithoutCallbacks ==
    ( /\ node_last.op = "set_attribute"
      /\ node_last.status = "Good"
      /\ attribute_getters[node_last.attribute_id] = None
      /\ attribute_setters[node_last.attribute_id] = None )
    => node_last.found = Returned(Some(node_last.value))

\* A write to the last attribute of the table, on a node with callbacks registered
\* for NodeId only, has been read back.
C7_Witness ==
    /\ node_last.op = "set_attribute"
    /\ node_last.status = "Good"
    /\ node_last.attribute_id = "UserExecutable"
    /\ attribute_getters["UserExecutable"] = None
    /\ attribute_setters["UserExecutable"] = None
    /\ attribute_setters["NodeId"] # None
    /\ node_last.found = Returned(Some(DataValueOf(Some(Var("Boolean", TRUE)))))

\* C8 (as claimed): the table always holds NodeClass as Int32, NodeId as NodeId,
\* DisplayName as LocalizedText and BrowseName as QualifiedName, so the accessors
\* reading the table do not reach their panic.
C8_Claim_MandatoryAttributesTyped ==
    /\ MandatoryValue(TableSlot(attributes, "NodeClass"), "Int32").outcome = "return"
    /\ MandatoryValue(TableSlot(attributes, "NodeId"), "NodeId").outcome = "return"
    /\ MandatoryValue(TableSlot(attributes, "DisplayName"), "LocalizedText").outcome = "return"
    /\ MandatoryValue(TableSlot(attributes, "BrowseName"), "QualifiedName").outcome = "return"

\* C9 (as claimed): set_attribute on NodeId or NodeClass returns BadNotWritable.
C9_Claim_NotWritableStatus ==
    (node_last.op = "set_attribute" /\ node_last.attribute_id \in {"NodeId", "NodeClass"})
        => node_last.status = "BadNotWritable"

\* C10: a set_attribute whose value is absent or of another variant type than the
\* one fixed for the attribute returns BadTypeMismatch, leaves the attribute table
\* as it was and invokes no setter.
C10_TypeMismatchChangesNothing ==
    [][ ( /\ node_ops' = node_ops + 1
          /\ node_last'.op = "set_attribute"
          /\ Mismatch(node_last'.attribute_id, node_last'.value) )
        => ( /\ node_last'.status = "BadTypeMismatch"
             /\ attributes' = attributes
             /\ setter_calls' = setter_calls
             /\ node_status' = "ok" ) ]_vars

\* A String has been written to IsAbstract on a node with a setter registered for
\* IsAbstract: the write was refused and the setter was not called.
C10_Witness ==
    /\ node_last.op = "set_attribute"
    /\ node_last.attribute_id = "IsAbstract"
    /\ node_last.value = DataValueOf(Some(Var("String", "text")))
    /\ node_last.status = "BadTypeMismatch"
    /\ attribute_setters["IsAbstract"] # None
    /\ setter_calls = <<>>

\* What the static table of the specification admits for an attribute: the fixed
\* variant type, for ArrayDimensions an Array of UInt32 only (the empty one
\* included), for Value any DataValue, and nothing for NodeId and NodeClass.
Admitted(attribute_id, data_value) ==
    CASE attribute_id = "Value" -> TRUE
      [] attribute_id \in {"NodeId", "NodeClass"} -> FALSE
      [] attribute_id = "ArrayDimensions" ->
            /\ data_value.value # None
            /\ data_value.value[1].type = "Array"
            /\ \A i \in 1..Len(data_value.value[1].val) :
                   data_value.value[1].val[i].type = "UInt32"
      [] OTHER ->
            /\ data_value.value # None
            /\ data_value.value[1].type = FixedType(attribute_id)

\* C11: set_attribute gets past its type check (does not answer BadTypeMismatch)
\* exactly for the values the static table admits for the attribute.
C11_TypeCheckIsTheStaticTable ==
    node_last.op = "set_attribute" =>
        ((node_last.status # "BadTypeMismatch")
            <=> Admitted(node_last.attribute_id, node_last.value))

\* The empty array has been accepted as ArrayDimensions.
C11_Witness ==
    /\ node_last.op = "set_attribute"
    /\ node_last.attribute_id = "ArrayDimensions"
    /\ node_last.value = DataValueOf(Some(Var("Array", <<>>)))
    /\ node_last.status = "Good"
    /\ TableSlot(attributes, "ArrayDimensions") = Some(node_last.value)

\* C12 (as claimed): the find_attribute after a set_attribute returns the answer of
\* the getter registered for the attribute, or the table slot when there is none;
\* an admitted write goes to the registered setter and leaves the table alone, or
\* overwrites the slot when there is none.
C12_Claim_CallbacksConsulted ==
    [][ (node_ops' = node_ops + 1 /\ node_last'.op = "set_attribute") =>
        LET id == node_last'.attribute_id
            v == node_last'.value
        IN  /\ node_last'.found =
                    IF attribute_getters[id] # None
                    THEN Returned(GetterAnswer(attribute_getters[id][1]))
                    ELSE Returned(TableSlot(attributes', id))
            /\ Admitted(id, v) =>
                    IF attribute_setters[id] # None
                    THEN /\ setter_calls' = Append(setter_calls, <<id, v>>)
                         /\ attributes' = attributes
                    ELSE /\ setter_calls' = setter_calls
                         /\ attributes' =
                                [attributes EXCEPT ![AttributeIdNum(id)] = Some(v)] ]_vars

\* C13: the attribute table has 22 slots in every state, and every attribute id
\* indexes a slot in 0..21.
C13_TableHas22Slots ==
    /\ Len(attributes) = 22
    /\ DOMAIN attributes = 1..22
    /\ \A attribute_id \in AttributeIds : AttributeIdx(attribute_id) \in 0..21
    /\ Cardinality(AttributeIds) = 22

\* The last slot of the table has been written on a node with a getter registered.
C13_Witness ==
    /\ node_last.op = "set_attribute"
    /\ node_last.attribute_id = "UserExecutable"
    /\ node_last.status = "Good"
    /\ attribute_getters["NodeId"] # None
    /\ attributes[22] = Some(node_last.value)
    /\ Len(attributes) = 22

\* C14 (as claimed): after set_write_mask(m) (set_user_write_mask(m)) the inner
\* set_attribute has returned Ok and write_mask() (user_write_mask()) returns
\* Some(m), whatever getter or setter is registered.
C14_Claim_WriteMaskReadBack ==
    node_last.op \in {"set_write_mask", "set_user_write_mask"} =>
        /\ node_last.status = "Good"
        /\ node_last.found = Returned(Some(node_last.value.value[1].val))

(***************************************************************************)
(* services::method::MethodService                                         *)
(***************************************************************************)

\* constants::MAX_METHOD_CALLS; the model takes a small cap.
MAX_METHOD_CALLS == 3

Ok(x) == [ok |-> TRUE, message |-> x]

\* Service::service_fault(request_header, service_result)
ServiceFault(service_result) ==
    [kind |-> "ServiceFault", response_header |-> [service_result |-> service_result]]

\* ResponseHeader::new_good(request_header)
NewGood == [service_result |-> "Good"]

\* The methods an entry can name: one that succeeds, one whose handler reports bad
\* arguments in its CallMethodResult, one the address space does not know.
MethodIds == {"echo", "badarg", "unknown"}

\* CallMethodRequest
CallMethodRequests == [method_id : MethodIds, input_arguments : 1..2]

\* AddressSpace::call_method(server_state, session, request):
\* Result<CallMethodResult, StatusCode>
CallMethod(request) ==
    CASE request.method_id = "echo" ->
            [ok |-> TRUE,
             response |-> [status_code |-> "Good",
                           input_argument_results |-> Some(<<"Good">>),
                           input_argument_diagnostic_infos |-> None,
                           output_arguments |-> Some(<<request.input_arguments>>)]]
      [] request.method_id = "badarg" ->
            [ok |-> TRUE,
             response |-> [status_code |-> "BadInvalidArgument",
                           input_argument_results |-> Some(<<"BadTypeMismatch">>),
                           input_argument_diagnostic_infos |-> None,
                           output_arguments |-> None]]
      [] request.method_id = "unknown" ->
            [ok |-> FALSE, err |-> "BadMethodInvalid"]

\* The cap check left out.
TooManyCallsNever(len) == FALSE

\* "calls.len() >= constants::MAX_METHOD_CALLS"
TooManyCalls(len) == len >= MAX_METHOD_CALLS

\* The closure of the map with the status code of a failed call lost.
EntryResultErrorAsGood(request) ==
    LET r == CallMethod(request) IN
    IF r.ok THEN r.response
    ELSE [status_code |-> "Good",
          input_argument_results |-> None,
          input_argument_diagnostic_infos |-> None,
          output_arguments |-> None]

\* The closure of the map: the CallMethodResult of one entry.
EntryResult(request) ==
    LET r == CallMethod(request) IN
    IF r.ok THEN r.response
    ELSE [status_code |-> r.err,
          input_argument_results |-> None,
          input_argument_diagnostic_infos |-> None,
          output_arguments |-> None]

\* MethodService::call on request.methods_to_call: what it returns, and the
\* entries it passed to call_method.
MethodServiceCall(methods_to_call) ==
    IF methods_to_call # None
    THEN LET calls == methods_to_call[1] IN
         IF TooManyCalls(Len(calls))
         THEN [ret |-> Ok(ServiceFault("BadTooManyOperations")), invoked |-> <<>>]
         ELSE [ret |-> Ok([kind |-> "CallResponse",
                           response_header |-> NewGood,
                           results |-> Some([i \in 1..Len(calls) |-> EntryResult(calls[i])]),
                           diagnostic_infos |-> None]),
               invoked |-> calls]
    ELSE [ret |-> Ok(ServiceFault("BadNothingToDo")), invoked |-> <<>>]

\* Batches of up to two entries more than the cap.
MaxBatch == MAX_METHOD_CALLS + 2

RECURSIVE Batches(_)
Batches(n) ==
    IF n = 0 THEN {<<>>}
    ELSE {<<>>} \cup {<<e>> \o b : e \in CallMethodRequests, b \in Batches(n - 1)}

\* CallRequest.methods_to_call: absent, or a batch.
CallRequestInputs == {None} \cup {Some(calls) : calls \in Batches(MaxBatch)}

InitMethod ==
    /\ MethodIdle
    /\ BufIdle
    /\ NodeIdle
    /\ ServerNew
    /\ LocksIdle
    /\ CodecIdle

\* MethodService::call(address_space, server_state, session, request)
Call ==
    /\ call_pc = "idle"
    /\ \E request \in CallRequestInputs :
         \E r \in {MethodServiceCall(request)} :
            /\ call_request' = request
            /\ call_invoked' = r.invoked
            /\ call_response' = Some(r.ret)
    /\ call_pc' = "done"
    /\ UNCHANGED <<bufVars, nodeVars, serverVars, lockVars, codecVars>>

NextMethod == Call

SpecMethod == InitMethod /\ [][NextMethod]_vars

(***************************************************************************)
(* Properties of MethodService::call                                       *)
(***************************************************************************)

\* What call returned, once it has.
CallRet == call_response[1]

\* The entries of the request, when methods_to_call is present.
Calls == call_request[1]

\* The result the claims expect for an entry: what call_method answers for it, a
\* failure turned into its status code with nothing else.
ExpectedResult(request) ==
    IF CallMethod(request).ok
    THEN CallMethod(request).response
    ELSE [status_code |-> CallMethod(request).err,
          input_argument_results |-> None,
          input_argument_diagnostic_infos |-> None,
          output_arguments |-> None]

\* C15 (as claimed): a call whose methods_to_call is absent or has zero entries
\* returns the service fault BadNothingToDo and invokes no method.
C15_Claim_EmptyBatchNothingToDo ==
    (call_pc = "done" /\ (call_request = None \/ call_request = Some(<<>>))) =>
        /\ CallRet = Ok(ServiceFault("BadNothingToDo"))
        /\ call_invoked = <<>>

\* C16 (as claimed): a call with N entries, 1 <= N <= MAX_METHOD_CALLS, returns a
\* CallResponse with N results, result i being the result of entry i.
C16_Claim_OneResultPerEntry ==
    (call_pc = "done" /\ call_request # None /\ Len(Calls) >= 1
        /\ Len(Calls) <= MAX_METHOD_CALLS) =>
        /\ CallRet.ok
        /\ CallRet.message.kind = "CallResponse"
        /\ CallRet.message.results # None
        /\ Len(CallRet.message.results[1]) = Len(Calls)
        /\ \A i \in 1..Len(Calls) :
               CallRet.message.results[1][i] = ExpectedResult(Calls[i])

\* C17: a call with MAX_METHOD_CALLS + 1 entries or more returns the service fault
\* BadTooManyOperations, which carries no results, and call_method is not invoked.
C17_TooManyOperationsFault ==
    (call_pc = "done" /\ call_request # None /\ Len(Calls) >= MAX_METHOD_CALLS + 1) =>
        /\ CallRet = Ok(ServiceFault("BadTooManyOperations"))
        /\ "results" \notin DOMAIN CallRet.message
        /\ call_invoked = <<>>

\* A batch of MAX_METHOD_CALLS + 1 entries has been refused.
C17_Witness ==
    /\ call_pc = "done"
    /\ call_request # None
    /\ Len(Calls) = MAX_METHOD_CALLS + 1
    /\ CallRet.message.kind = "ServiceFault"
    /\ CallRet.message.response_header.service_result = "BadTooManyOperations"

\* C18: call never returns Err, and when it has passed entries to call_method it
\* has passed all of them in order, the response header is Good, every entry has
\* its result, and the result of an entry whose call_method failed is that status
\* code with no input-argument results, diagnostics or output arguments.
C18_FailingEntryDoesNotFailBatch ==
    call_pc = "done" =>
        /\ CallRet.ok
        /\ call_invoked # <<>> =>
            /\ call_invoked = Calls
            /\ CallRet.message.kind = "CallResponse"
            /\ CallRet.message.response_header.service_result = "Good"
            /\ CallRet.message.results # None
            /\ Len(CallRet.message.results[1]) = Len(Calls)
            /\ \A i \in 1..Len(Calls) :
                   IF CallMethod(Calls[i]).ok
                   THEN CallRet.message.results[1][i] = CallMethod(Calls[i]).response
                   ELSE CallRet.message.results[1][i] =
                            [status_code |-> CallMethod(Calls[i]).err,
                             input_argument_results |-> None,
                             input_argument_diagnostic_infos |-> None,
                             output_arguments |-> None]

\* A batch whose first entry failed and whose second succeeded has been answered.
C18_Witness ==
    /\ call_pc = "done"
    /\ call_request # None
    /\ Len(Calls) = 2
    /\ ~CallMethod(Calls[1]).ok
    /\ CallMethod(Calls[2]).ok
    /\ CallRet.message.kind = "CallResponse"
    /\ CallRet.message.results[1][1].status_code = "BadMethodInvalid"
    /\ CallRet.message.results[1][2].status_code = "Good"

(***************************************************************************)
(* server::Server: run, the accept loop, the abort-poll task, abort        *)
(***************************************************************************)

\* Number of sockets the listener yields in one run.
MaxSockets == 2

\* is_abort() reading false whatever the flag.
IsAbortNever(server_state_abort) == FALSE

\* Server::is_abort
IsAbortAlways(server_state_abort) == TRUE

IsAbort(server_state_abort) == server_state_abort

\* remove_dead_connections waiting for the lock of each connection (read instead of
\* try_read): a terminated connection goes even while its transport holds the lock.
RemoveDeadConnectionsBlockingRead(conns, dead, locked) ==
    SelectSeq(conns, LAMBDA connection : connection \notin dead)

\* Server::remove_dead_connections: retain keeps a connection whose lock cannot be
\* read (try_read fails) or whose session is not terminated.
RemoveDeadConnections(conns, dead, locked) ==
    SelectSeq(conns, LAMBDA connection :
        IF connection \notin locked THEN connection \notin dead ELSE TRUE)

\* The tick of the abort-poll task deciding on the flag alone.
AbortPollTickIgnoresConnections(server_state_abort, conns, dead, locked) ==
    IF IsAbort(server_state_abort)
    THEN [connections |-> RemoveDeadConnections(conns, dead, locked), abort |-> TRUE]
    ELSE [connections |-> conns, abort |-> FALSE]

\* The block of the take_while closure run under the Server lock: the connections
\* it leaves and its value "abort".
AbortPollTick(server_state_abort, conns, dead, locked) ==
    IF IsAbort(server_state_abort)
    THEN LET kept == RemoveDeadConnections(conns, dead, locked) IN
         [connections |-> kept, abort |-> (kept = <<>>)]
    ELSE [connections |-> conns, abort |-> FALSE]

\* The accept handler under the Server lock: the connections it leaves.
\* handle_connection wraps the socket in a transport and pushes it.
AcceptHandler(server_state_abort, conns, socket) ==
    IF IsAbort(server_state_abort) THEN conns ELSE Append(conns, socket)

\* run's closure under the Server and ServerState locks: the state it leaves.
RunSetStateForgotten(server_state_state) == server_state_state

RunSetState(server_state_state) == "Running"

\* The registration interval, in minutes.
DISCOVERY_INTERVAL == 5

\* Timer::interval_at(at, dur): the instant of the first tick of the interval.
IntervalAt(at, dur) == at

\* start_discovery_server_registration_timer at the given instant: the timer it
\* leaves running, None when no discovery server is configured.
StartDiscoveryServerRegistrationTimer(url, instant) ==
    IF url # None THEN Some(IntervalAt(instant, DISCOVERY_INTERVAL)) ELSE None

\* add_polling_action: the queue and the started actions it leaves.
AddPollingActionAlwaysQueues(server_state_state, pending, started, action) ==
    [pending |-> Append(pending, action), started |-> started]

AddPollingActionResult(server_state_state, pending, started, action) ==
    IF server_state_state # "Running"
    THEN [pending |-> Append(pending, action), started |-> started]
    ELSE [pending |-> pending, started |-> Append(started, action)]

\* start_pending_polling_actions: drain(..) spawns every queued action, in order.
StartPendingPollingActions(pending, started) ==
    [pending |-> <<>>, started |-> started \o pending]

\* The value of the take_while closure, future::ok(!abort): the interval goes on.
TakeWhileContinuesAlways(abort_decision) == TRUE

TakeWhileContinues(abort_decision) == ~abort_decision

\* rx_abort lives in the accept future: it is dropped when that future ends.
ReceiverAlive(pc) == pc = "listening"

\* tokio::run returns when the accept future and every spawned task have ended;
\* the registration interval never ends.
RuntimeIdle(pc, poll, timer) ==
    /\ pc \in {"ended", "failed"}
    /\ poll \in {"ended", "panicked"}
    /\ timer = None

MaxActions == 2

MaxMinutes == 12

InitServer ==
    /\ \E url \in {None, Some("opc.tcp://discovery:4840")} : ServerCreated(url)
    /\ BufIdle
    /\ NodeIdle
    /\ MethodIdle
    /\ LocksIdle
    /\ CodecIdle

\* Server::run up to the bound listener: the address is resolved or run returns;
\* under the Server lock the state becomes Running, the registration timer is
\* started, the pending polling actions are drained; the abort-poll task is spawned.
RunStart ==
    /\ run_pc = "created"
    /\ server_lock = "free"
    /\ \E resolved \in BOOLEAN :
         IF resolved
         THEN /\ state' = RunSetState(state)
              /\ discovery_timer' =
                    StartDiscoveryServerRegistrationTimer(discovery_server_url, now)
              /\ \E r \in {StartPendingPollingActions(pending_polling_actions,
                                                       started_actions)} :
                    /\ pending_polling_actions' = r.pending
                    /\ started_actions' = r.started
              /\ poll_pc' = "waiting"
              /\ run_pc' = "listening"
         ELSE /\ run_pc' = "unresolved"
              /\ UNCHANGED <<state, poll_pc, discovery_timer,
                             pending_polling_actions, started_actions>>
    /\ UNCHANGED <<abort, connections, terminated, transport_locked, server_lock,
                   accept_pc, sockets, abort_signals>>
    /\ UNCHANGED <<added_actions, discovery_server_url, now, registrations>>
    /\ UNCHANGED <<bufVars, nodeVars, methodVars, lockVars, codecVars>>

\* listener.incoming() yields a socket to the for_each closure.
AcceptSocket ==
    /\ run_pc = "listening"
    /\ accept_pc = "idle"
    /\ sockets < MaxSockets
    /\ sockets' = sockets + 1
    /\ accept_pc' = "socket"
    /\ UNCHANGED <<abort, state, connections, terminated, transport_locked, server_lock,
                   run_pc, poll_pc, abort_signals>>
    /\ UNCHANGED <<pending_polling_actions, started_actions, added_actions>>
    /\ UNCHANGED <<discovery_server_url, now, discovery_timer, registrations>>
    /\ UNCHANGED <<bufVars, nodeVars, methodVars, lockVars, codecVars>>

\* trace_write_lock_unwrap!(server_for_listener)
AcceptLock ==
    /\ accept_pc = "socket"
    /\ server_lock = "free"
    /\ server_lock' = "accept"
    /\ accept_pc' = "locked"
    /\ UNCHANGED <<abort, state, connections, terminated, transport_locked,
                   run_pc, sockets, poll_pc, abort_signals>>
    /\ UNCHANGED <<pending_polling_actions, started_actions, added_actions>>
    /\ UNCHANGED <<discovery_server_url, now, discovery_timer, registrations>>
    /\ UNCHANGED <<bufVars, nodeVars, methodVars, lockVars, codecVars>>

\* The body of the closure: is_abort(), else handle_connection(socket); the lock is
\* dropped at the end of the closure.
AcceptHandle ==
    /\ accept_pc = "locked"
    /\ connections' = AcceptHandler(abort, connections, sockets)
    /\ server_lock' = "free"
    /\ accept_pc' = "idle"
    /\ UNCHANGED <<abort, state, terminated, transport_locked,
                   run_pc, sockets, poll_pc, abort_signals>>
    /\ UNCHANGED <<pending_polling_actions, started_actions, added_actions>>
    /\ UNCHANGED <<discovery_server_url, now, discovery_timer, registrations>>
    /\ UNCHANGED <<bufVars, nodeVars, methodVars, lockVars, codecVars>>

\* stream_completion_pact: a unit on rx_abort ends the accept stream.
AcceptStreamEnds ==
    /\ run_pc = "listening"
    /\ accept_pc = "idle"
    /\ abort_signals > 0
    /\ run_pc' = "ended"
    /\ UNCHANGED <<abort, state, connections, terminated, transport_locked, server_lock,
                   accept_pc, sockets, poll_pc, abort_signals>>
    /\ UNCHANGED <<pending_polling_actions, started_actions, added_actions>>
    /\ UNCHANGED <<discovery_server_url, now, discovery_timer, registrations>>
    /\ UNCHANGED <<bufVars, nodeVars, methodVars, lockVars, codecVars>>

\* A tick of the abort-poll timer: trace_write_lock_unwrap!(server)
PollLock ==
    /\ poll_pc = "waiting"
    /\ server_lock = "free"
    /\ server_lock' = "poll"
    /\ poll_pc' = "locked"
    /\ UNCHANGED <<abort, state, connections, terminated, transport_locked,
                   run_pc, accept_pc, sockets, abort_signals>>
    /\ UNCHANGED <<pending_polling_actions, started_actions, added_actions>>
    /\ UNCHANGED <<discovery_server_url, now, discovery_timer, registrations>>
    /\ UNCHANGED <<bufVars, nodeVars, methodVars, lockVars, codecVars>>

\* The block computing "abort" under the lock, which is dropped at its end.
PollCheck ==
    /\ poll_pc = "locked"
    /\ \E r \in {AbortPollTick(abort, connections, terminated, transport_locked)} :
            /\ connections' = r.connections
            /\ poll_pc' = IF r.abort THEN "sending"
                          ELSE IF TakeWhileContinues(FALSE) THEN "waiting" ELSE "ended"
    /\ server_lock' = "free"
    /\ UNCHANGED <<abort, state, terminated, transport_locked,
                   run_pc, accept_pc, sockets, abort_signals>>
    /\ UNCHANGED <<pending_polling_actions, started_actions, added_actions>>
    /\ UNCHANGED <<discovery_server_url, now, discovery_timer, registrations>>
    /\ UNCHANGED <<bufVars, nodeVars, methodVars, lockVars, codecVars>>

\* tx_abort.unbounded_send(()).unwrap(), then future::ok(false): take_while ends
\* the task. The send fails when the receiver is gone, and the unwrap panics.
PollSend ==
    /\ poll_pc = "sending"
    /\ IF ReceiverAlive(run_pc)
       THEN /\ abort_signals' = abort_signals + 1
            /\ poll_pc' = IF TakeWhileContinues(TRUE) THEN "waiting" ELSE "ended"
       ELSE /\ poll_pc' = "panicked"
            /\ UNCHANGED abort_signals
    /\ UNCHANGED <<abort, state, connections, terminated, transport_locked, server_lock,
                   run_pc, accept_pc, sockets>>
    /\ UNCHANGED <<pending_polling_actions, started_actions, added_actions>>
    /\ UNCHANGED <<discovery_server_url, now, discovery_timer, registrations>>
    /\ UNCHANGED <<bufVars, nodeVars, methodVars, lockVars, codecVars>>

\* An abort that writes the negation of the flag.
AbortTogglesFlag ==
    /\ server_lock = "free"
    /\ abort' = ~abort
    /\ UNCHANGED <<state, connections, terminated, transport_locked, server_lock,
                   run_pc, accept_pc, sockets, poll_pc, abort_signals>>
    /\ UNCHANGED <<pending_polling_actions, started_actions, added_actions>>
    /\ UNCHANGED <<discovery_server_url, now, discovery_timer, registrations>>
    /\ UNCHANGED <<bufVars, nodeVars, methodVars, lockVars, codecVars>>

\* Server::abort, called by a holder of the Server's write lock (&mut self).
Abort ==
    /\ server_lock = "free"
    /\ ~abort
    /\ abort' = TRUE
    /\ UNCHANGED <<state, connections, terminated, transport_locked, server_lock,
                   run_pc, accept_pc, sockets, poll_pc, abort_signals>>
    /\ UNCHANGED <<pending_polling_actions, started_actions, added_actions>>
    /\ UNCHANGED <<discovery_server_url, now, discovery_timer, registrations>>
    /\ UNCHANGED <<bufVars, nodeVars, methodVars, lockVars, codecVars>>

\* The session of a registered connection terminates.
SessionTerminates ==
    /\ \E connection \in 1..MaxSockets :
            /\ \E i \in 1..Len(connections) : connections[i] = connection
            /\ connection \notin terminated
            /\ terminated' = terminated \cup {connection}
    /\ UNCHANGED <<abort, state, connections, transport_locked, server_lock,
                   run_pc, accept_pc, sockets, poll_pc, abort_signals>>
    /\ UNCHANGED <<pending_polling_actions, started_actions, added_actions>>
    /\ UNCHANGED <<discovery_server_url, now, discovery_timer, registrations>>
    /\ UNCHANGED <<bufVars, nodeVars, methodVars, lockVars, codecVars>>

\* The transport of a registered connection takes the write lock of its RwLock.
TransportLocks ==
    /\ \E connection \in 1..MaxSockets :
            /\ \E i \in 1..Len(connections) : connections[i] = connection
            /\ connection \notin transport_locked
            /\ transport_locked' = transport_locked \cup {connection}
    /\ UNCHANGED <<abort, state, connections, terminated, server_lock,
                   run_pc, accept_pc, sockets, poll_pc, abort_signals>>
    /\ UNCHANGED <<pending_polling_actions, started_actions, added_actions>>
    /\ UNCHANGED <<discovery_server_url, now, discovery_timer, registrations>>
    /\ UNCHANGED <<bufVars, nodeVars, methodVars, lockVars, codecVars>>

\* The transport releases it.
TransportUnlocks ==
    /\ \E connection \in transport_locked :
            transport_locked' = transport_locked \ {connection}
    /\ UNCHANGED <<abort, state, connections, terminated, server_lock,
                   run_pc, accept_pc, sockets, poll_pc, abort_signals>>
    /\ UNCHANGED <<pending_polling_actions, started_actions, added_actions>>
    /\ UNCHANGED <<discovery_server_url, now, discovery_timer, registrations>>
    /\ UNCHANGED <<bufVars, nodeVars, methodVars, lockVars, codecVars>>

\* listener.incoming() yields an error: for_each ends with it, map_err logs it and
\* the accept future is over.
AcceptError ==
    /\ run_pc = "listening"
    /\ accept_pc = "idle"
    /\ run_pc' = "failed"
    /\ UNCHANGED <<abort, state, connections, terminated, transport_locked, server_lock,
                   accept_pc, sockets, poll_pc, abort_signals>>
    /\ UNCHANGED <<pending_polling_actions, started_actions, added_actions>>
    /\ UNCHANGED <<discovery_server_url, now, discovery_timer, registrations>>
    /\ UNCHANGED <<bufVars, nodeVars, methodVars, lockVars, codecVars>>

\* tokio::run returns, and run with it.
RunReturns ==
    /\ RuntimeIdle(run_pc, poll_pc, discovery_timer)
    /\ run_pc' = "returned"
    /\ UNCHANGED <<abort, state, connections, terminated, transport_locked, server_lock,
                   accept_pc, sockets, poll_pc, abort_signals>>
    /\ UNCHANGED <<pending_polling_actions, started_actions, added_actions>>
    /\ UNCHANGED <<discovery_server_url, now, discovery_timer, registrations>>
    /\ UNCHANGED <<bufVars, nodeVars, methodVars, lockVars, codecVars>>

\* Server::add_polling_action, called by a holder of the Server's write lock
\* (&mut self).
AddPollingAction ==
    /\ server_lock = "free"
    /\ added_actions < MaxActions
    /\ added_actions' = added_actions + 1
    /\ \E r \in {AddPollingActionResult(state, pending_polling_actions,
                                        started_actions, added_actions + 1)} :
            /\ pending_polling_actions' = r.pending
            /\ started_actions' = r.started
    /\ UNCHANGED <<abort, state, connections, terminated, transport_locked, server_lock,
                   run_pc, accept_pc, sockets, poll_pc, abort_signals>>
    /\ UNCHANGED <<discovery_server_url, now, discovery_timer, registrations>>
    /\ UNCHANGED <<bufVars, nodeVars, methodVars, lockVars, codecVars>>

NextServer ==
    \/ RunStart
    \/ AcceptSocket
    \/ AcceptLock
    \/ AcceptHandle
    \/ AcceptStreamEnds
    \/ PollLock
    \/ PollCheck
    \/ PollSend
    \/ Abort
    \/ SessionTerminates
    \/ TransportLocks
    \/ TransportUnlocks
    \/ AcceptError
    \/ RunReturns
    \/ AddPollingAction

SpecServer == InitServer /\ [][NextServer]_vars

\* The executor runs every task that is ready: the 1 Hz interval keeps ticking, a
\* lock that stays free is taken, a closure that has started runs to its end, and
\* the accept stream sees the unit on rx_abort.
SpecServerFair ==
    /\ InitServer
    /\ [][NextServer]_vars
    /\ WF_vars(PollLock)
    /\ WF_vars(PollCheck)
    /\ WF_vars(PollSend)
    /\ WF_vars(AcceptLock)
    /\ WF_vars(AcceptHandle)
    /\ WF_vars(AcceptStreamEnds)

(***************************************************************************)
(* The discovery registration timer, with the clock                        *)
(***************************************************************************)

\* A minute passes. The timer fires when it is due, so the clock does not pass an
\* instant at which the interval is due.
Tick ==
    /\ now < MaxMinutes
    /\ (discovery_timer # None) => (now < discovery_timer[1])
    /\ now' = now + 1
    /\ UNCHANGED <<abort, state, connections, terminated, transport_locked, server_lock,
                   run_pc, accept_pc, sockets, poll_pc, abort_signals>>
    /\ UNCHANGED <<pending_polling_actions, started_actions, added_actions>>
    /\ UNCHANGED <<discovery_server_url, discovery_timer, registrations>>
    /\ UNCHANGED <<bufVars, nodeVars, methodVars, lockVars, codecVars>>

\* A tick of the registration interval: the for_each closure spawns the thread that
\* calls register_discover_server, and the interval is due again one period after
\* the instant it was due.
DiscoveryTimerFires ==
    /\ discovery_timer # None
    /\ now >= discovery_timer[1]
    /\ registrations' = Append(registrations, now)
    /\ discovery_timer' = Some(discovery_timer[1] + DISCOVERY_INTERVAL)
    /\ UNCHANGED <<abort, state, connections, terminated, transport_locked, server_lock,
                   run_pc, accept_pc, sockets, poll_pc, abort_signals>>
    /\ UNCHANGED <<pending_polling_actions, started_actions, added_actions>>
    /\ UNCHANGED <<discovery_server_url, now>>
    /\ UNCHANGED <<bufVars, nodeVars, methodVars, lockVars, codecVars>>

NextDiscovery ==
    \/ RunStart
    \/ Tick
    \/ DiscoveryTimerFires

SpecDiscovery == InitServer /\ [][NextDiscovery]_vars

(***************************************************************************)
(* The locks of the server lifecycle, path by path                         *)
(***************************************************************************)

\* The documented order: Server, ServerState, ServerState.config, AddressSpace,
\* Connections.
LockRank ==
    [Server |-> 1, ServerState |-> 2, Config |-> 3, AddressSpace |-> 4, Connections |-> 5]

Acquire(lock, mode) == [op |-> "acquire", lock |-> lock, mode |-> mode]

\* The guard is dropped.
Release(lock) == [op |-> "release", lock |-> lock, mode |-> "none"]

\* abort taking the flag's lock before the Server's.
AbortPathStateFirst ==
    << Acquire("ServerState", "write"), Acquire("Server", "write"),
       Release("Server"), Release("ServerState") >>

\* Server::abort, by a caller that took the write lock of the Server to call it.
AbortPath ==
    << Acquire("Server", "write"), Acquire("ServerState", "write"),
       Release("ServerState"), Release("Server") >>

LockTasks == {"new", "run", "poll", "accept", "abort", "add_polling_action", "discovery"}

\* The lock operations of each code path, in program order; a path with a branch
\* has one sequence per branch.
TaskPaths(task) ==
    LET \* log_endpoint_info and get_socket_address: server_state, then its config;
        \* the guards are dropped in reverse order at the end of the function.
        ConfigReadPath ==
            << Acquire("ServerState", "read"), Acquire("Config", "read"),
               Release("Config"), Release("ServerState") >>
        \* is_abort: server_state is read and released.
        IsAbortPath == << Acquire("ServerState", "read"), Release("ServerState") >>
        \* remove_dead_connections: the list is locked for the retain; try_read on
        \* a connection never waits.
        RemoveDeadConnectionsPath ==
            << Acquire("Connections", "write"), Release("Connections") >>
    IN  CASE task = "new" ->
                \* Server::new: the address space is locked to set the server state
                \* into it.
                { << Acquire("AddressSpace", "write"), Release("AddressSpace") >> }
          [] task = "run" ->
                \* Server::run up to the spawn of the abort-poll task: the two
                \* blocks under the read lock of the Server, then the closure under
                \* its write lock.
                { << Acquire("Server", "read") >> \o ConfigReadPath
                  \o << Release("Server") >>
                  \o << Acquire("Server", "read") >> \o ConfigReadPath \o ConfigReadPath
                  \o << Release("Server") >>
                  \o << Acquire("Server", "write"), Acquire("ServerState", "write"),
                        Release("ServerState"), Release("Server") >> }
          [] task = "poll" ->
                \* A tick of the abort-poll task, with the flag unset or set.
                { << Acquire("Server", "write") >> \o IsAbortPath
                  \o << Release("Server") >>,
                  << Acquire("Server", "write") >> \o IsAbortPath
                  \o RemoveDeadConnectionsPath
                  \o << Acquire("Connections", "write"), Release("Connections"),
                        Release("Server") >> }
          [] task = "accept" ->
                \* The accept closure, with the flag set or unset
                \* (handle_connection).
                { << Acquire("Server", "write") >> \o IsAbortPath
                  \o << Release("Server") >>,
                  << Acquire("Server", "write") >> \o IsAbortPath
                  \o << Acquire("Connections", "write"), Release("Connections"),
                        Release("Server") >> }
          [] task = "abort" -> {AbortPath}
          [] task = "add_polling_action" ->
                \* Server::add_polling_action, by a caller that took the write lock
                \* of the Server to call it.
                { << Acquire("Server", "write"), Acquire("ServerState", "read"),
                     Release("ServerState"), Release("Server") >> }
          [] task = "discovery" ->
                \* The registration thread: server_state is read for the whole
                \* registration.
                { << Acquire("ServerState", "read"), Release("ServerState") >> }

\* What has to be over before a path can be entered: the Server exists once new
\* has returned, and run spawns the tasks.
TaskMayStart(task, done) ==
    CASE task = "new" -> TRUE
      [] task \in {"run", "abort", "add_polling_action"} -> "new" \in done
      [] OTHER -> "run" \in done

\* RwLock: a writer excludes everyone, a reader excludes writers.
LockFree(held, lock, mode) ==
    \A task \in LockTasks : \A i \in 1..Len(held[task]) :
        (held[task][i].lock = lock) => (mode = "read" /\ held[task][i].mode = "read")

InitLocks ==
    /\ lock_todo = [task \in LockTasks |-> <<>>]
    /\ lock_held = [task \in LockTasks |-> <<>>]
    /\ lock_done = {}
    /\ BufIdle
    /\ NodeIdle
    /\ MethodIdle
    /\ ServerNew
    /\ CodecIdle

\* A code path is entered.
LockStart ==
    /\ \E task \in LockTasks :
          /\ lock_todo[task] = <<>>
          /\ task \notin lock_done
          /\ TaskMayStart(task, lock_done)
          /\ \E path \in TaskPaths(task) :
                lock_todo' = [lock_todo EXCEPT ![task] = path]
    /\ UNCHANGED <<lock_held, lock_done>>
    /\ UNCHANGED <<bufVars, nodeVars, methodVars, serverVars, codecVars>>

\* trace_read_lock_unwrap! / trace_write_lock_unwrap!: the path waits until the
\* lock can be taken.
LockAcquire ==
    /\ \E task \in LockTasks :
          /\ lock_todo[task] # <<>>
          /\ Head(lock_todo[task]).op = "acquire"
          /\ LockFree(lock_held, Head(lock_todo[task]).lock, Head(lock_todo[task]).mode)
          /\ lock_held' = [lock_held EXCEPT
                               ![task] = Append(@, Head(lock_todo[task]))]
          /\ lock_todo' = [lock_todo EXCEPT ![task] = Tail(@)]
    /\ UNCHANGED lock_done
    /\ UNCHANGED <<bufVars, nodeVars, methodVars, serverVars, codecVars>>

\* A guard goes out of scope; a one-shot path that has done its last operation
\* is over.
LockRelease ==
    /\ \E task \in LockTasks :
          /\ lock_todo[task] # <<>>
          /\ Head(lock_todo[task]).op = "release"
          /\ lock_held' = [lock_held EXCEPT ![task] =
                SelectSeq(@, LAMBDA h : h.lock # Head(lock_todo[task]).lock)]
          /\ lock_todo' = [lock_todo EXCEPT ![task] = Tail(@)]
          /\ lock_done' = IF Len(lock_todo[task]) = 1 /\ task \in {"new", "run"}
                          THEN lock_done \cup {task} ELSE lock_done
    /\ UNCHANGED <<bufVars, nodeVars, methodVars, serverVars, codecVars>>

NextLocks ==
    \/ LockStart
    \/ LockAcquire
    \/ LockRelease

SpecLocks == InitLocks /\ [][NextLocks]_vars

(***************************************************************************)
(* The binary codec of the field types (UA Binary)                         *)
(***************************************************************************)

MAX_ARRAY_LENGTH == 1000

\* What a decode returns: the value and the offset after it, or an error.
Decoded(value, next) == [ok |-> TRUE, value |-> value, next |-> next, err |-> "Good"]

DecodeFailed(err) == [ok |-> FALSE, value |-> None, next |-> 0, err |-> err]

\* A NodeId: namespace and a numeric or string identifier.
NumericNodeId(namespace, value) ==
    [namespace |-> namespace, numeric |-> TRUE, value |-> ToU32(value), string |-> None]

StringNodeId(namespace, string) ==
    [namespace |-> namespace, numeric |-> FALSE, value |-> ToU32(0), string |-> string]

\* The field types of the records. A basic type has a name; a structure lists
\* the types of its fields in declaration order; an array names the type of its
\* elements. Int32, UInt32, StatusCode and the enumerations without a range check
\* are 32 bits on the wire; Double and DateTime are 64 bits, kept as the two
\* 32-bit halves of their bits.
FieldType ==
    LET Prim(name) == [name |-> name, of |-> <<>>]
        Struct(fields) == [name |-> "struct", of |-> fields]
        ArrayOf(type) == [name |-> "array", of |-> <<type>>]
        Byte == Prim("Byte")
        UInt16 == Prim("UInt16")
        UInt32 == Prim("UInt32")
        Bits64 == Prim("Bits64")
        UAString == Prim("String")
        NodeId == Prim("NodeId")
        LocalizedText == Prim("LocalizedText")
        \* ExtensionObject without a body: its type id and the encoding byte 0.
        ExtensionObject == Struct(<< NodeId, Byte >>)
        \* DiagnosticInfo with none of its optional fields: the mask byte 0.
        DiagnosticInfo == Struct(<< Byte >>)
        QualifiedName == Struct(<< UInt16, UAString >>)
        \* application_uri, product_uri, application_name, application_type,
        \* gateway_server_uri, discovery_profile_uri, discovery_urls.
        ApplicationDescription ==
            Struct(<< UAString, UAString, LocalizedText, UInt32, UAString, UAString,
                      ArrayOf(UAString) >>)
        \* policy_id, token_type, issued_token_type, issuer_endpoint_url,
        \* security_policy_uri.
        UserTokenPolicy == Struct(<< UAString, UInt32, UAString, UAString, UAString >>)
    IN  [Byte |-> Byte,
         UInt16 |-> UInt16,
         UInt32 |-> UInt32,
         Int32 |-> UInt32,
         StatusCode |-> UInt32,
         Double |-> Bits64,
         DateTime |-> Bits64,
         TimestampsToReturn |-> Prim("TimestampsToReturn"),
         UAString |-> UAString,
         NodeId |-> NodeId,
         LocalizedText |-> LocalizedText,
         ExtensionObject |-> ExtensionObject,
         DiagnosticInfo |-> DiagnosticInfo,
         QualifiedName |-> QualifiedName,
         \* authentication_token, timestamp, request_handle, return_diagnostics,
         \* audit_entry_id, timeout_hint, additional_header.
         RequestHeader |->
             Struct(<< NodeId, Bits64, UInt32, UInt32, UAString, UInt32,
                       ExtensionObject >>),
         \* timestamp, request_handle, service_result, service_diagnostics,
         \* string_table, additional_header.
         ResponseHeader |->
             Struct(<< Bits64, UInt32, UInt32, DiagnosticInfo, ArrayOf(UAString),
                       ExtensionObject >>),
         \* node_id, attribute_id, index_range, data_encoding.
         ReadValueId |-> Struct(<< NodeId, UInt32, UAString, QualifiedName >>),
         \* filter_operator, filter_operands.
         ContentFilterElement |-> Struct(<< UInt32, ArrayOf(ExtensionObject) >>),
         \* endpoint_url, server, server_certificate, security_mode,
         \* security_policy_uri, user_identity_tokens, transport_profile_uri,
         \* security_level.
         EndpointDescription |->
             Struct(<< UAString, ApplicationDescription, UAString, UInt32, UAString,
                       ArrayOf(UserTokenPolicy), UAString, Byte >>)]

RECURSIVE EncodeT(_, _)

\* encode of a value of a field type: the bytes it writes. A NodeId has the
\* two-byte, four-byte and full numeric forms and the string form; a LocalizedText
\* has a mask byte (1: locale, 2: text) and the strings it announces. The fields
\* of a structure are written one after the other; an array is its length, -1 for
\* a null array, and its elements one after the other.
EncodeT(type, v) ==
    LET name == type.name
        U16Bytes(n) == << n % 256, n \div 256 >>
        TimestampsToReturnValue == [Source |-> 0, Server |-> 1, Both |-> 2, Neither |-> 3]
    IN  CASE name = "Byte" -> << v >>
          [] name = "UInt16" -> U16Bytes(v)
          [] name = "UInt32" -> U32Bytes(v)
          [] name = "TimestampsToReturn" -> U32Bytes(ToU32(TimestampsToReturnValue[v]))
          [] name = "Bits64" -> U32Bytes(v[1]) \o U32Bytes(v[2])
          [] name = "String" -> EncodeString(v)
          [] name = "NodeId" ->
                IF v.numeric
                THEN IF v.namespace = 0 /\ v.value.hi = 0 /\ v.value.lo <= 255
                     THEN << 0, v.value.lo >>
                     ELSE IF v.namespace <= 255 /\ v.value.hi = 0
                     THEN << 1, v.namespace >> \o U16Bytes(v.value.lo)
                     ELSE << 2 >> \o U16Bytes(v.namespace) \o U32Bytes(v.value)
                ELSE << 3 >> \o U16Bytes(v.namespace) \o EncodeString(v.string)
          [] name = "LocalizedText" ->
                << (IF v.locale # None THEN 1 ELSE 0) + (IF v.text # None THEN 2 ELSE 0) >>
                \o (IF v.locale # None THEN EncodeString(v.locale) ELSE <<>>)
                \o (IF v.text # None THEN EncodeString(v.text) ELSE <<>>)
          [] name = "struct" ->
                IF type.of = <<>> THEN <<>>
                ELSE EncodeT(Head(type.of), Head(v))
                     \o EncodeT([type EXCEPT !.of = Tail(@)], Tail(v))
          [] name = "array" ->
                IF v = None THEN U32Bytes(MinusOne)
                ELSE U32Bytes(ToU32(Len(v[1])))
                     \o EncodeT([name |-> "struct",
                                 of |-> [j \in 1..Len(v[1]) |-> type.of[1]]], v[1])

RECURSIVE DecodeT(_, _, _)

\* decode of a value of a field type at offset off of the stream. Each field is
\* read where the one before it ended; the first error ends the decoding.
DecodeT(type, b, off) ==
    LET name == type.name
        U16At(at) == b[at + 1] + 256 * b[at + 2]
        TimestampsToReturnOf(n) ==
            IF n = 0 THEN "Source" ELSE IF n = 1 THEN "Server"
            ELSE IF n = 2 THEN "Both" ELSE "Neither"
        Absent(at) == [ok |-> TRUE, value |-> None, next |-> at]
    IN  CASE name = "Byte" ->
                IF Len(b) < off + 1 THEN DecodeFailed("BadDecodingError")
                ELSE Decoded(b[off + 1], off + 1)
          [] name = "UInt16" ->
                IF Len(b) < off + 2 THEN DecodeFailed("BadDecodingError")
                ELSE Decoded(U16At(off), off + 2)
          [] name = "UInt32" ->
                IF Len(b) < off + 4 THEN DecodeFailed("BadDecodingError")
                ELSE Decoded(U32At(b, off), off + 4)
          [] name = "TimestampsToReturn" ->
                IF Len(b) < off + 4 THEN DecodeFailed("BadDecodingError")
                ELSE IF U32At(b, off).hi # 0 \/ U32At(b, off).lo > 3
                THEN DecodeFailed("BadUnexpectedError")
                ELSE Decoded(TimestampsToReturnOf(U32At(b, off).lo), off + 4)
          [] name = "Bits64" ->
                IF Len(b) < off + 8 THEN DecodeFailed("BadDecodingError")
                ELSE Decoded(<< U32At(b, off), U32At(b, off + 4) >>, off + 8)
          [] name = "String" ->
                LET s == DecodeString(b, off) IN
                IF s.ok THEN Decoded(s.value, s.next) ELSE DecodeFailed(s.err)
          [] name = "NodeId" ->
                IF Len(b) < off + 1 THEN DecodeFailed("BadDecodingError")
                ELSE LET form == b[off + 1] IN
                     IF form = 0
                     THEN IF Len(b) < off + 2 THEN DecodeFailed("BadDecodingError")
                          ELSE Decoded(NumericNodeId(0, b[off + 2]), off + 2)
                     ELSE IF form = 1
                     THEN IF Len(b) < off + 4 THEN DecodeFailed("BadDecodingError")
                          ELSE Decoded(NumericNodeId(b[off + 2], U16At(off + 2)), off + 4)
                     ELSE IF form = 2
                     THEN IF Len(b) < off + 7 THEN DecodeFailed("BadDecodingError")
                          ELSE Decoded([namespace |-> U16At(off + 1), numeric |-> TRUE,
                                        value |-> U32At(b, off + 3), string |-> None],
                                       off + 7)
                     ELSE IF form = 3
                     THEN IF Len(b) < off + 3 THEN DecodeFailed("BadDecodingError")
                          ELSE LET s == DecodeString(b, off + 3) IN
                               IF s.ok
                               THEN Decoded(StringNodeId(U16At(off + 1), s.value), s.next)
                               ELSE DecodeFailed(s.err)
                     ELSE DecodeFailed("BadDecodingError")
          [] name = "LocalizedText" ->
                IF Len(b) < off + 1 THEN DecodeFailed("BadDecodingError")
                ELSE LET mask == b[off + 1]
                         locale == IF mask % 2 = 1 THEN DecodeString(b, off + 1)
                                   ELSE Absent(off + 1)
                     IN  IF ~locale.ok THEN DecodeFailed(locale.err)
                         ELSE LET text == IF (mask \div 2) % 2 = 1
                                          THEN DecodeString(b, locale.next)
                                          ELSE Absent(locale.next)
                              IN  IF ~text.ok THEN DecodeFailed(text.err)
                                  ELSE Decoded([locale |-> locale.value,
                                                text |-> text.value], text.next)
          [] name = "struct" ->
                IF type.of = <<>> THEN Decoded(<<>>, off)
                ELSE LET field == DecodeT(Head(type.of), b, off) IN
                     IF ~field.ok THEN field
                     ELSE LET rest == DecodeT([type EXCEPT !.of = Tail(@)], b,
                                              field.next)
                          IN  IF ~rest.ok THEN rest
                              ELSE Decoded(<< field.value >> \o rest.value, rest.next)
          [] name = "array" ->
                IF Len(b) < off + 4 THEN DecodeFailed("BadDecodingError")
                ELSE LET len == AsI32(U32At(b, off)) IN
                     IF len = -1 THEN Decoded(None, off + 4)
                     ELSE IF len < -1 THEN DecodeFailed("BadDecodingError")
                     ELSE IF len > MAX_ARRAY_LENGTH
                     THEN DecodeFailed("BadEncodingLimitsExceeded")
                     ELSE LET elements ==
                                  DecodeT([name |-> "struct",
                                           of |-> [j \in 1..len |-> type.of[1]]],
                                          b, off + 4)
                          IN  IF elements.ok
                              THEN Decoded(Some(elements.value), elements.next)
                              ELSE elements

RECURSIVE ByteLenT(_, _)

\* byte_len of a value of a field type.
ByteLenT(type, v) ==
    LET name == type.name
        StringLen(s) == 4 + (IF s = None THEN 0 ELSE Len(s[1]))
    IN  CASE name = "Byte" -> 1
          [] name = "UInt16" -> 2
          [] name = "UInt32" -> 4
          [] name = "TimestampsToReturn" -> 4
          [] name = "Bits64" -> 8
          [] name = "String" -> StringLen(v)
          [] name = "NodeId" ->
                IF v.numeric
                THEN IF v.namespace = 0 /\ v.value.hi = 0 /\ v.value.lo <= 255 THEN 2
                     ELSE IF v.namespace <= 255 /\ v.value.hi = 0 THEN 4
                     ELSE 7
                ELSE 3 + StringLen(v.string)
          [] name = "LocalizedText" ->
                1 + (IF v.locale # None THEN StringLen(v.locale) ELSE 0)
                  + (IF v.text # None THEN StringLen(v.text) ELSE 0)
          [] name = "struct" ->
                IF type.of = <<>> THEN 0
                ELSE ByteLenT(Head(type.of), Head(v))
                     + ByteLenT([type EXCEPT !.of = Tail(@)], Tail(v))
          [] name = "array" ->
                IF v = None THEN 4
                ELSE 4 + ByteLenT([name |-> "struct",
                                   of |-> [j \in 1..Len(v[1]) |-> type.of[1]]], v[1])

\* byte_len_array, write_array, read_array for an array of the given elements.
ByteLenArray(element, values) ==
    ByteLenT([name |-> "array", of |-> << element >>], values)

WriteArray(element, values) ==
    EncodeT([name |-> "array", of |-> << element >>], values)

ReadArray(element, b, off) ==
    DecodeT([name |-> "array", of |-> << element >>], b, off)

(***************************************************************************)
(* The generated wire records                                              *)
(***************************************************************************)

\* Each record implements BinaryEncoder: byte_len adds the sizes of the fields in
\* declaration order; encode writes the fields in declaration order and returns
\* the sum of what each write reports; decode reads the fields in the same order
\* from the start of the stream, `?` returning the first error. The argument is
\* the value for byte_len and encode, and the stream for decode.

\* An Argument whose decode reads value_rank before data_type.
ArgumentDecodesValueRankFirst(fn, x) ==
    CASE fn = "byte_len" ->
            ByteLenT(FieldType.UAString, x.name)
            + ByteLenT(FieldType.NodeId, x.data_type)
            + ByteLenT(FieldType.Int32, x.value_rank)
            + ByteLenArray(FieldType.UInt32, x.array_dimensions)
            + ByteLenT(FieldType.LocalizedText, x.description)
      [] fn = "encode" ->
            LET name == EncodeT(FieldType.UAString, x.name)
                data_type == EncodeT(FieldType.NodeId, x.data_type)
                value_rank == EncodeT(FieldType.Int32, x.value_rank)
                array_dimensions == WriteArray(FieldType.UInt32, x.array_dimensions)
                description == EncodeT(FieldType.LocalizedText, x.description)
            IN  [bytes |-> name \o data_type \o value_rank \o array_dimensions \o
                           description,
                 size |-> Len(name) + Len(data_type) + Len(value_rank) +
                          Len(array_dimensions) + Len(description)]
      [] fn = "decode" ->
            LET name == DecodeT(FieldType.UAString, x, 0) IN
            IF ~name.ok THEN name ELSE
            LET value_rank == DecodeT(FieldType.Int32, x, name.next) IN
            IF ~value_rank.ok THEN value_rank ELSE
            LET data_type == DecodeT(FieldType.NodeId, x, value_rank.next) IN
            IF ~data_type.ok THEN data_type ELSE
            LET array_dimensions == ReadArray(FieldType.UInt32, x, data_type.next) IN
            IF ~array_dimensions.ok THEN array_dimensions ELSE
            LET description == DecodeT(FieldType.LocalizedText, x, array_dimensions.next) IN
            IF ~description.ok THEN description ELSE
            Decoded([name |-> name.value, data_type |-> data_type.value,
                     value_rank |-> value_rank.value,
                     array_dimensions |-> array_dimensions.value,
                     description |-> description.value],
                    description.next)

\* impl BinaryEncoder<Argument> for Argument.
Argument(fn, x) ==
    CASE fn = "byte_len" ->
            ByteLenT(FieldType.UAString, x.name)
            + ByteLenT(FieldType.NodeId, x.data_type)
            + ByteLenT(FieldType.Int32, x.value_rank)
            + ByteLenArray(FieldType.UInt32, x.array_dimensions)
            + ByteLenT(FieldType.LocalizedText, x.description)
      [] fn = "encode" ->
            LET name == EncodeT(FieldType.UAString, x.name)
                data_type == EncodeT(FieldType.NodeId, x.data_type)
                value_rank == EncodeT(FieldType.Int32, x.value_rank)
                array_dimensions == WriteArray(FieldType.UInt32, x.array_dimensions)
                description == EncodeT(FieldType.LocalizedText, x.description)
            IN  [bytes |-> name \o data_type \o value_rank \o array_dimensions \o
                           description,
                 size |-> Len(name) + Len(data_type) + Len(value_rank) +
                          Len(array_dimensions) + Len(description)]
      [] fn = "decode" ->
            LET name == DecodeT(FieldType.UAString, x, 0) IN
            IF ~name.ok THEN name ELSE
            LET data_type == DecodeT(FieldType.NodeId, x, name.next) IN
            IF ~data_type.ok THEN data_type ELSE
            LET value_rank == DecodeT(FieldType.Int32, x, data_type.next) IN
            IF ~value_rank.ok THEN value_rank ELSE
            LET array_dimensions == ReadArray(FieldType.UInt32, x, value_rank.next) IN
            IF ~array_dimensions.ok THEN array_dimensions ELSE
            LET description == DecodeT(FieldType.LocalizedText, x, array_dimensions.next) IN
            IF ~description.ok THEN description ELSE
            Decoded([name |-> name.value, data_type |-> data_type.value,
                     value_rank |-> value_rank.value,
                     array_dimensions |-> array_dimensions.value,
                     description |-> description.value],
                    description.next)

\* impl BinaryEncoder<ReadRequest> for ReadRequest.
ReadRequest(fn, x) ==
    CASE fn = "byte_len" ->
            ByteLenT(FieldType.RequestHeader, x.request_header)
            + ByteLenT(FieldType.Double, x.max_age)
            + ByteLenT(FieldType.TimestampsToReturn, x.timestamps_to_return)
            + ByteLenArray(FieldType.ReadValueId, x.nodes_to_read)
      [] fn = "encode" ->
            LET request_header == EncodeT(FieldType.RequestHeader, x.request_header)
                max_age == EncodeT(FieldType.Double, x.max_age)
                timestamps_to_return == EncodeT(FieldType.TimestampsToReturn, x.timestamps_to_return)
                nodes_to_read == WriteArray(FieldType.ReadValueId, x.nodes_to_read)
            IN  [bytes |-> request_header \o max_age \o timestamps_to_return \o
                           nodes_to_read,
                 size |-> Len(request_header) + Len(max_age) +
                          Len(timestamps_to_return) + Len(nodes_to_read)]
      [] fn = "decode" ->
            LET request_header == DecodeT(FieldType.RequestHeader, x, 0) IN
            IF ~request_header.ok THEN request_header ELSE
            LET max_age == DecodeT(FieldType.Double, x, request_header.next) IN
            IF ~max_age.ok THEN max_age ELSE
            LET timestamps_to_return == DecodeT(FieldType.TimestampsToReturn, x, max_age.next) IN
            IF ~timestamps_to_return.ok THEN timestamps_to_return ELSE
            LET nodes_to_read == ReadArray(FieldType.ReadValueId, x, timestamps_to_return.next) IN
            IF ~nodes_to_read.ok THEN nodes_to_read ELSE
            Decoded([request_header |-> request_header.value,
                     max_age |-> max_age.value,
                     timestamps_to_return |-> timestamps_to_return.value,
                     nodes_to_read |-> nodes_to_read.value],
                    nodes_to_read.next)

\* impl BinaryEncoder<ContentFilter> for ContentFilter.
ContentFilter(fn, x) ==
    CASE fn = "byte_len" ->
            ByteLenArray(FieldType.ContentFilterElement, x.elements)
      [] fn = "encode" ->
            LET elements == WriteArray(FieldType.ContentFilterElement, x.elements)
            IN  [bytes |-> elements,
                 size |-> Len(elements)]
      [] fn = "decode" ->
            LET elements == ReadArray(FieldType.ContentFilterElement, x, 0) IN
            IF ~elements.ok THEN elements ELSE
            Decoded([elements |-> elements.value],
                    elements.next)

\* impl BinaryEncoder<ContentFilterElementResult> for ContentFilterElementResult.
ContentFilterElementResult(fn, x) ==
    CASE fn = "byte_len" ->
            ByteLenT(FieldType.StatusCode, x.status_code)
            + ByteLenArray(FieldType.StatusCode, x.operand_status_codes)
            + ByteLenArray(FieldType.DiagnosticInfo, x.operand_diagnostic_infos)
      [] fn = "encode" ->
            LET status_code == EncodeT(FieldType.StatusCode, x.status_code)
                operand_status_codes == WriteArray(FieldType.StatusCode, x.operand_status_codes)
                operand_diagnostic_infos == WriteArray(FieldType.DiagnosticInfo, x.operand_diagnostic_infos)
            IN  [bytes |-> status_code \o operand_status_codes \o
                           operand_diagnostic_infos,
                 size |-> Len(status_code) + Len(operand_status_codes) +
                          Len(operand_diagnostic_infos)]
      [] fn = "decode" ->
            LET status_code == DecodeT(FieldType.StatusCode, x, 0) IN
            IF ~status_code.ok THEN status_code ELSE
            LET operand_status_codes == ReadArray(FieldType.StatusCode, x, status_code.next) IN
            IF ~operand_status_codes.ok THEN operand_status_codes ELSE
            LET operand_diagnostic_infos == ReadArray(FieldType.DiagnosticInfo, x, operand_status_codes.next) IN
            IF ~operand_diagnostic_infos.ok THEN operand_diagnostic_infos ELSE
            Decoded([status_code |-> status_code.value,
                     operand_status_codes |-> operand_status_codes.value,
                     operand_diagnostic_infos |-> operand_diagnostic_infos.value],
                    operand_diagnostic_infos.next)

\* impl BinaryEncoder<FilterOperand> for FilterOperand.
FilterOperand(fn, x) ==
    CASE fn = "byte_len" -> 0
      [] fn = "encode" -> [bytes |-> <<>>, size |-> 0]
      [] fn = "decode" -> Decoded([fields |-> <<>>], 0)

\* impl BinaryEncoder<GetEndpointsResponse> for GetEndpointsResponse.
GetEndpointsResponse(fn, x) ==
    CASE fn = "byte_len" ->
            ByteLenT(FieldType.ResponseHeader, x.response_header)
            + ByteLenArray(FieldType.EndpointDescription, x.endpoints)
      [] fn = "encode" ->
            LET response_header == EncodeT(FieldType.ResponseHeader, x.response_header)
                endpoints == WriteArray(FieldType.EndpointDescription, x.endpoints)
            IN  [bytes |-> response_header \o endpoints,
                 size |-> Len(response_header) + Len(endpoints)]
      [] fn = "decode" ->
            LET response_header == DecodeT(FieldType.ResponseHeader, x, 0) IN
            IF ~response_header.ok THEN response_header ELSE
            LET endpoints == ReadArray(FieldType.EndpointDescription, x, response_header.next) IN
            IF ~endpoints.ok THEN endpoints ELSE
            Decoded([response_header |-> response_header.value,
                     endpoints |-> endpoints.value],
                    endpoints.next)

\* The functions of a record, by the name of its type.
WireRecord(type, fn, x) ==
    CASE type = "Argument" -> Argument(fn, x)
      [] type = "ReadRequest" -> ReadRequest(fn, x)
      [] type = "ContentFilter" -> ContentFilter(fn, x)
      [] type = "ContentFilterElementResult" -> ContentFilterElementResult(fn, x)
      [] type = "FilterOperand" -> FilterOperand(fn, x)
      [] type = "GetEndpointsResponse" -> GetEndpointsResponse(fn, x)

\* The records the codec is applied to: of each type, values that reach every
\* form of its fields (null, empty and non-empty strings and arrays, the four
\* forms of a NodeId, the masks of a LocalizedText, values above 16 bits).
WireInputs ==
    LET \* None, the empty array and the arrays of one and of two of the elements.
        ArrayInputs(elements) ==
            {None, Some(<<>>)}
            \cup {Some(<<element>>) : element \in elements}
            \cup {Some(<<a, b>>) : a \in elements, b \in elements}
        StringInputs == {None, Some(<<>>), Some(<<Ch.A, Ch.C>>)}
        NodeIdInputs ==
            {NumericNodeId(0, 7), NumericNodeId(2, 300), NumericNodeId(300, 70000),
             StringNodeId(1, Some(<<Ch.N>>))}
        Int32Inputs == {MinusOne, ToU32(2)}
        UInt32ArrayInputs == {None, Some(<<>>), Some(<<ToU32(1), ToU32(70000)>>)}
        LocalizedTextInputs ==
            {[locale |-> None, text |-> None],
             [locale |-> None, text |-> Some(<<>>)],
             [locale |-> Some(<<Ch.E, Ch.N>>), text |-> Some(<<Ch.H>>)]}
        DoubleInputs == {<<ToU32(0), ToU32(0)>>, <<ToU32(70000), ToU32(1074340347)>>}
        NullExtensionObject == <<NumericNodeId(0, 0), 0>>
        RequestHeaderInputs ==
            {<<NumericNodeId(0, 0), <<ToU32(0), ToU32(0)>>, ToU32(0), ToU32(0), None,
               ToU32(0), NullExtensionObject>>,
             <<StringNodeId(1, Some(<<Ch.K>>)), <<ToU32(5), ToU32(30000000)>>,
               ToU32(66000), ToU32(1), Some(<<Ch.A>>), ToU32(1000),
               <<NumericNodeId(0, 300), 0>>>>}
        ResponseHeaderInputs ==
            {<< <<ToU32(0), ToU32(0)>>, ToU32(0), ToU32(0), <<0>>, None,
                NullExtensionObject>>,
             << <<ToU32(5), ToU32(30000000)>>, ToU32(66000), ToU32(2147483647), <<0>>,
                Some(<<Some(<<Ch.A>>), None>>), NullExtensionObject>>}
        ReadValueIdInputs ==
            {<<NumericNodeId(0, 7), ToU32(13), None, <<0, None>>>>,
             <<StringNodeId(1, Some(<<Ch.N>>)), ToU32(1), Some(<<Ch.A>>),
               <<2, Some(<<Ch.X>>)>>>>}
        ContentFilterElementInputs ==
            {<<ToU32(0), None>>,
             <<ToU32(17), Some(<<NullExtensionObject, <<NumericNodeId(0, 300), 0>>>>)>>}
        EndpointDescriptionInputs ==
            {<<Some(<<Ch.O, Ch.P, Ch.C>>),
               <<Some(<<Ch.A>>), None, [locale |-> None, text |-> Some(<<Ch.S>>)],
                 ToU32(0), None, None, Some(<<Some(<<Ch.O>>)>>)>>,
               None, ToU32(1), Some(<<Ch.N>>),
               Some(<< <<Some(<<Ch.A>>), ToU32(0), None, None, None>> >>),
               Some(<<Ch.H>>), 0>>}
        Of(type, values) == {[type |-> type, value |-> v] : v \in values}
    IN  Of("Argument",
           {[name |-> name, data_type |-> data_type, value_rank |-> value_rank,
             array_dimensions |-> array_dimensions, description |-> description] :
               name \in StringInputs, data_type \in NodeIdInputs,
               value_rank \in Int32Inputs, array_dimensions \in UInt32ArrayInputs,
               description \in LocalizedTextInputs})
        \cup Of("ReadRequest",
                {[request_header |-> request_header, max_age |-> max_age,
                  timestamps_to_return |-> timestamps_to_return,
                  nodes_to_read |-> nodes_to_read] :
                    request_header \in RequestHeaderInputs, max_age \in DoubleInputs,
                    timestamps_to_return \in {"Source", "Server", "Both", "Neither"},
                    nodes_to_read \in ArrayInputs(ReadValueIdInputs)})
        \cup Of("ContentFilter",
                {[elements |-> elements] :
                    elements \in ArrayInputs(ContentFilterElementInputs)})
        \cup Of("ContentFilterElementResult",
                {[status_code |-> status_code,
                  operand_status_codes |-> operand_status_codes,
                  operand_diagnostic_infos |-> operand_diagnostic_infos] :
                    status_code \in {ToU32(0), [lo |-> 0, hi |-> 32768]},
                    operand_status_codes \in UInt32ArrayInputs,
                    operand_diagnostic_infos \in ArrayInputs({<<0>>})})
        \cup Of("FilterOperand", {[fields |-> <<>>]})
        \cup Of("GetEndpointsResponse",
                {[response_header |-> response_header, endpoints |-> endpoints] :
                    response_header \in ResponseHeaderInputs,
                    endpoints \in ArrayInputs(EndpointDescriptionInputs)})

InitCodec ==
    /\ wire_value \in {Some(w) : w \in WireInputs}
    /\ wire_pc = "fresh"
    /\ wire_bytes = <<>>
    /\ wire_written = 0
    /\ wire_decoded = None
    /\ BufIdle
    /\ NodeIdle
    /\ MethodIdle
    /\ ServerNew
    /\ LocksIdle

\* encode(&self, stream): the stream holds what was written, the result is the
\* size.
EncodeRecord ==
    /\ wire_pc = "fresh"
    /\ \E r \in {WireRecord(wire_value[1].type, "encode", wire_value[1].value)} :
          /\ wire_bytes' = r.bytes
          /\ wire_written' = r.size
    /\ wire_pc' = "encoded"
    /\ UNCHANGED <<wire_value, wire_decoded>>
    /\ UNCHANGED <<bufVars, nodeVars, methodVars, serverVars, lockVars>>

\* decode(stream) of the same type, from the start of what encode wrote.
DecodeRecord ==
    /\ wire_pc = "encoded"
    /\ wire_decoded' = Some(WireRecord(wire_value[1].type, "decode", wire_bytes))
    /\ wire_pc' = "decoded"
    /\ UNCHANGED <<wire_value, wire_bytes, wire_written>>
    /\ UNCHANGED <<bufVars, nodeVars, methodVars, serverVars, lockVars>>

NextCodec ==
    \/ EncodeRecord
    \/ DecodeRecord

SpecCodec == InitCodec /\ [][NextCodec]_vars

(***************************************************************************)
(* Properties of the server                                                *)
(***************************************************************************)

\* The connections registered in a list.
Registered(conns) == {conns[i] : i \in 1..Len(conns)}

\* C19: from a state in which the abort flag is set, no step adds a connection to
\* the connections list, whatever the accept loop, the abort-poll task and the
\* connections do in between.
C19_NoConnectionAfterAbort ==
    [][ abort => /\ Registered(connections') \subseteq Registered(connections)
                 /\ Len(connections') <= Len(connections) ]_vars

\* The flag was set with one connection registered and the accept handler has
\* since dealt with a second socket, which is not registered.
C19_Witness ==
    /\ abort
    /\ sockets = 2
    /\ accept_pc = "idle"
    /\ connections = <<1>>

\* C20: the abort-poll task decides to signal only in a tick in which the flag is
\* set and the list is empty after the reaping, and when it sends the unit the flag
\* is set and no connection is registered.
C20_SignalOnlyWhenAbortedAndEmpty ==
    [][ /\ (poll_pc' = "sending" /\ poll_pc # "sending") =>
                (abort /\ connections' = <<>>)
        /\ (abort_signals' # abort_signals) =>
                (abort /\ connections = <<>> /\ abort' /\ connections' = <<>>) ]_vars

\* The signal has been sent after a connection was registered, terminated and
\* reaped.
C20_Witness ==
    /\ abort_signals = 1
    /\ poll_pc = "ended"
    /\ sockets >= 1
    /\ terminated # {}
    /\ connections = <<>>

\* The position of a registered connection in a list.
PositionOf(conns, connection) == CHOOSE i \in 1..Len(conns) : conns[i] = connection

\* C24: no step of abort(), of the abort-poll task or of any other task removes a
\* connection from the list unless its session is terminated and its lock is not
\* held by its transport at that step; the connections that stay keep their
\* relative order, and abort() itself leaves the list as it is.
C24_OnlyDeadUnlockedConnectionsRemoved ==
    [][ /\ \A connection \in Registered(connections) \ Registered(connections') :
              connection \in terminated /\ connection \notin transport_locked
        /\ \A a, b \in Registered(connections) \cap Registered(connections') :
              (PositionOf(connections, a) < PositionOf(connections, b)) =>
                  (PositionOf(connections', a) < PositionOf(connections', b))
        /\ (abort' # abort) => connections' = connections ]_vars

\* After the flag was set the task has reaped the first connection and kept the
\* second, which is terminated as well but whose lock its transport holds.
C24_Witness ==
    /\ abort
    /\ poll_pc = "waiting"
    /\ connections = <<2>>
    /\ 1 \in terminated
    /\ 2 \in terminated
    /\ 2 \in transport_locked

\* C25: over the whole life of a run the abort-poll task sends at most one unit on
\* the abort channel; once it has sent, the task has ended, and no later step
\* sends again or moves the task.
C25_AtMostOneAbortSignal ==
    [][ /\ abort_signals' <= 1
        /\ (abort_signals' = 1) => (poll_pc' = "ended")
        /\ (abort_signals = 1) => (abort_signals' = 1 /\ poll_pc' = poll_pc) ]_vars

\* The task has sent its unit and ended, the accept stream has ended on the unit
\* and run has returned.
C25_Witness ==
    /\ abort_signals = 1
    /\ poll_pc = "ended"
    /\ run_pc = "returned"

\* C22: run, once it listens, returns only after the flag has been set and the
\* abort-poll task has found the list empty; it does not return in a step taken
\* with a connection registered, and after it has returned no connection is
\* registered.
C22_RunReturnsOnlyAbortedAndEmpty ==
    [][ /\ (run_pc' = "returned" /\ run_pc # "returned") =>
              /\ abort
              /\ connections = <<>>
              /\ poll_pc \in {"ended", "panicked"}
        /\ (run_pc' = "returned") => (abort' /\ connections' = <<>>) ]_vars

\* run has returned after two connections were registered, terminated and reaped.
C22_Witness ==
    /\ run_pc = "returned"
    /\ sockets = 2
    /\ terminated = {1, 2}
    /\ connections = <<>>

\* C23: from the moment run has set the state to Running, no step makes it
\* Shutdown unless the flag is set and no connection is registered, and the state
\* is never Shutdown while a connection is registered.
C23_ShutdownOnlyAbortedAndEmpty ==
    [][ /\ (state = "Running" /\ state' = "Shutdown") => (abort /\ connections = <<>>)
        /\ (state' = "Shutdown") => (connections' = <<>>) ]_vars

\* The flag is set while a connection is still registered: the state is Running.
C23_Witness ==
    /\ state = "Running"
    /\ abort
    /\ connections = <<1>>
    /\ 1 \notin terminated

\* How often an action occurs in a list of actions.
Occurrences(actions, action) ==
    Cardinality({i \in 1..Len(actions) : actions[i] = action})

\* C26: in every interleaving of add_polling_action with run, each action passed
\* to add_polling_action is either queued or started, never both, never twice and
\* never neither; it is queued only while the state is not Running, nothing is
\* started before run has drained the queue, and from the drain on the queue is
\* empty and every action is started.
C26_EveryPollingActionStartedOnce ==
    /\ \A action \in 1..added_actions :
          Occurrences(pending_polling_actions \o started_actions, action) = 1
    /\ Len(pending_polling_actions) + Len(started_actions) = added_actions
    /\ (state = "Running") => (pending_polling_actions = <<>>)
    /\ (state # "Running") => (started_actions = <<>>)

\* Two actions were added, run has drained the queue and is listening, and both
\* are started.
C26_Witness ==
    /\ added_actions = 2
    /\ run_pc = "listening"
    /\ state = "Running"
    /\ started_actions = <<1, 2>>
    /\ pending_polling_actions = <<>>

\* The connection is not in the way of the abort-poll task: it is not registered,
\* or it reports its session terminated and its lock is free.
Reapable(connection) ==
    (connection \in Registered(connections)) =>
        (connection \in terminated /\ connection \notin transport_locked)

\* C21: from any state in which run listens and the flag is set, if every
\* registered connection is, from some tick on, terminated with its lock free, then
\* the abort-poll task eventually sends the unit and the accept loop then stops;
\* and a tick that finds the flag set and the list empty decides to send at once.
C21_Claim_AbortLeadsToSignal ==
    /\ []( (abort /\ run_pc = "listening") =>
              ( (\A connection \in 1..MaxSockets : <>[]Reapable(connection)) =>
                    <>(abort_signals = 1 /\ <>(run_pc # "listening")) ) )
    /\ [][ (poll_pc = "locked" /\ poll_pc' # "locked" /\ abort /\ connections = <<>>) =>
                (poll_pc' = "sending") ]_vars

\* C30: a registered connection whose session is terminated while the server is
\* running is eventually out of the list, unless its lock is held at some later
\* time or the accept loop ends, whether or not abort() is ever called.
C30_Claim_TerminatedConnectionReaped ==
    \A connection \in 1..MaxSockets :
        []( ( /\ state = "Running"
              /\ connection \in Registered(connections)
              /\ connection \in terminated )
            => <>( \/ connection \notin Registered(connections)
                   \/ connection \in transport_locked
                   \/ run_pc # "listening" ) )

\* C27: run starts the registration timer only when a discovery URL is configured;
\* the timer is first due one full interval after the instant it is started, no
\* attempt is made before that, and each attempt is made when the timer is due,
\* one interval after the previous one.
C27_Claim_FirstRegistrationAfterOneInterval ==
    [][ /\ (discovery_timer' # None) => (discovery_server_url # None)
        /\ (discovery_timer = None /\ discovery_timer' # None) =>
                /\ discovery_timer'[1] = now + DISCOVERY_INTERVAL
                /\ registrations' = <<>>
        /\ (registrations' # registrations) =>
                /\ registrations' = Append(registrations, discovery_timer[1])
                /\ (registrations # <<>>) =>
                      (discovery_timer[1] =
                          registrations[Len(registrations)] + DISCOVERY_INTERVAL) ]_vars

\* The path waits for a lock that another path, or itself, holds.
Waiting(task) ==
    /\ lock_todo[task] # <<>>
    /\ Head(lock_todo[task]).op = "acquire"
    /\ ~LockFree(lock_held, Head(lock_todo[task]).lock, Head(lock_todo[task]).mode)

\* The holder keeps the waiting path from the lock it waits for.
Blocks(holder, task) ==
    \E i \in 1..Len(lock_held[holder]) :
        /\ lock_held[holder][i].lock = Head(lock_todo[task]).lock
        /\ ~(Head(lock_todo[task]).mode = "read" /\ lock_held[holder][i].mode = "read")

\* C28: every code path of the lifecycle holds its locks in the order Server,
\* ServerState, ServerState.config, AddressSpace, Connections, and in no
\* interleaving is there a set of paths each waiting for a lock held by a path of
\* the set.
C28_LockOrderAndNoDeadlock ==
    /\ \A task \in LockTasks : \A i, j \in 1..Len(lock_held[task]) :
          (i < j) => (LockRank[lock_held[task][i].lock] < LockRank[lock_held[task][j].lock])
    /\ \A stuck \in SUBSET LockTasks :
          (stuck # {}) =>
              \E task \in stuck :
                  ~(Waiting(task) /\ \E holder \in stuck : Blocks(holder, task))

\* The abort-poll task holds the Server and the Connections locks, the
\* registration thread reads server_state, and abort() waits for the Server.
C28_Witness ==
    /\ Len(lock_held["poll"]) = 2
    /\ lock_held["poll"][2].lock = "Connections"
    /\ lock_held["discovery"] # <<>>
    /\ Waiting("abort")

\* C29: for each of the six generated records, what decode returns from the
\* stream encode wrote is the value encoded, decode has read the whole stream,
\* byte_len of the value is the size encode reported and the number of bytes in
\* the stream, and a FilterOperand is encoded in 0 bytes.
C29_RecordsRoundTrip ==
    /\ (wire_pc \in {"encoded", "decoded"}) =>
          /\ WireRecord(wire_value[1].type, "byte_len", wire_value[1].value) = wire_written
          /\ wire_written = Len(wire_bytes)
          /\ (wire_value[1].type = "FilterOperand") => (wire_bytes = <<>>)
    /\ (wire_pc = "decoded") =>
          /\ wire_decoded[1].ok
          /\ wire_decoded[1].next = Len(wire_bytes)
          /\ wire_decoded[1].value = wire_value[1].value

\* An Argument with a string NodeId, a null value rank of -1, two array
\* dimensions and a localized description has been encoded and decoded.
C29_Witness ==
    /\ wire_pc = "decoded"
    /\ wire_value[1].type = "Argument"
    /\ ~wire_value[1].value.data_type.numeric
    /\ wire_value[1].value.array_dimensions = Some(<<ToU32(1), ToU32(70000)>>)
    /\ wire_value[1].value.description.locale # None
    /\ wire_decoded[1].ok
    /\ Len(wire_bytes) > 30

(***************************************************************************)
(* C31: the abort flag is monotonic                                        *)
(***************************************************************************)

\* C31: the abort flag is false when the server has been created; a step never
\* takes it from true to false; the only step that writes it is abort(), which
\* sets it to true and leaves the rest of the server as it is (no step of run,
\* of the accept closure or of the abort-poll task writes the flag).
C31_AbortFlagMonotonic ==
    /\ abort = FALSE
    /\ [][ /\ abort => abort'
           /\ (abort' # abort) =>
                  /\ abort' = TRUE
                  /\ UNCHANGED <<state, connections, terminated, transport_locked,
                                 server_lock, run_pc, accept_pc, sockets, poll_pc,
                                 abort_signals, pending_polling_actions,
                                 started_actions, discovery_timer>> ]_vars

\* The flag was set while the server was running and is still set after the
\* abort-poll task has read it, the signal was sent and run has returned.
C31_Witness ==
    /\ abort
    /\ run_pc = "returned"
    /\ abort_signals = 1
    /\ state = "Running"

(***************************************************************************)
(* C32: the abort channel when the abort-poll task sends                   *)
(***************************************************************************)

\* C32: when the abort-poll task is about to send on the abort channel the
\* receiving end is alive (the accept stream has not ended), and the task never
\* panics on the unwrap of the send.
C32_Claim_SendFindsReceiverAlive ==
    /\ (poll_pc = "sending") => ReceiverAlive(run_pc)
    /\ poll_pc # "panicked"

(***************************************************************************)
(* C33: the loop of store_bytes terminates                                 *)
(***************************************************************************)

\* The passes of the loop from the given buffer: each pass leaves the loop (the
\* guard is false, the header does not decode, the message is not complete yet,
\* the message does not decode) or leaves a shorter buffer to the next pass.
RECURSIVE EveryPassProgresses(_)
EveryPassProgresses(buffer) ==
    IF ~LoopGuard(buffer) THEN TRUE
    ELSE LET h == DecodeHeader(buffer) IN
         IF ~h.ok THEN TRUE
         ELSE LET message_size == AsUsize(h.header.message_size) IN
              IF NotYetComplete(Len(buffer), message_size) THEN TRUE
              ELSE LET d == Drain(buffer, message_size)
                       m == DecodeMessage(h.header.message_type, d.taken)
                   IN  IF ~m.ok THEN TRUE
                       ELSE /\ Len(d.left) < Len(buffer)
                            /\ EveryPassProgresses(d.left)

\* C33: store_bytes terminates for every buffer content and every input: for the
\* buffer a run has reached and every piece of input that can be fed next, each
\* pass of the loop leaves the loop or removes at least one byte, also when the
\* header announces message_size 0 or less than the header length; and a call
\* that has returned has left at most the bytes it was given.
C33_StoreBytesTerminates ==
    /\ \A n \in 0..(Len(stream) - fed) :
          EveryPassProgresses(in_buffer \o SubSeq(stream, fed + 1, fed + n))
    /\ Len(in_buffer) <= fed

\* A call has returned on a buffer whose front header announces message_size 0
\* and is followed by further bytes: the pass drained nothing and left the loop
\* with the decode error.
C33_Witness ==
    /\ frames[1] = "zero"
    /\ last.called
    /\ ~last.ok
    /\ fed > MESSAGE_HEADER_LEN
    /\ Len(in_buffer) = fed

(***************************************************************************)
(* C34: what a failed store_bytes leaves behind                            *)
(***************************************************************************)

\* The frames whose header announces the length they have on the wire: the four
\* valid ones, the frame of unknown type and the Error frame without a body.
SizedFrames == ValidFrames \cup {"badtype", "empty"}

\* C34: a call of store_bytes that returns an error returns no message, not even
\* the complete messages it decoded before the failing one. When the peer's
\* frames announce their true length, the failing message is the first frame at
\* or after the front of the buffer that has an unsupported type or no decodable
\* body, it was complete, and the buffer is left starting right after it: its
\* bytes and those of the complete messages before it are gone. A call that
\* fails on a header that does not decode keeps every byte of the buffer.
C34_FailedCallDropsMessages ==
    [][ (last'.called /\ ~last'.ok /\ fed' >= fed /\ Len(in_buffer) <= fed) =>
          LET bytes == SubSeq(stream, fed + 1, fed')
              front == fed - Len(in_buffer)
          IN  /\ returned' = returned
              /\ last'.messages = <<>>
              /\ ((\A i \in 1..Len(frames) : frames[i] \in SizedFrames) =>
                    \E k \in 1..Len(frames) :
                        /\ Boundary(k - 1) >= front
                        /\ Boundary(k) <= fed'
                        /\ frames[k] \notin ValidFrames
                        /\ \A j \in 1..(k - 1) :
                              (Boundary(j - 1) >= front) => (frames[j] \in ValidFrames)
                        /\ fed' - Len(in_buffer') = Boundary(k))
              /\ (LoopGuard(in_buffer \o bytes) /\ ~DecodeHeader(in_buffer \o bytes).ok) =>
                    (in_buffer' = in_buffer \o bytes) ]_vars

\* A Hello followed by a frame of unknown type were fed in one call: the call
\* failed, the Hello was not returned, and the bytes of both are gone.
C34_Witness ==
    /\ Len(frames) = 2
    /\ frames[1] = "hello"
    /\ frames[2] = "badtype"
    /\ fed = Len(stream)
    /\ last.called
    /\ ~last.ok
    /\ last.err = "BadCommunicationError"
    /\ returned = <<>>
    /\ in_buffer = <<>>

(***************************************************************************)
(* C35: calls through a registered getter or setter return                 *)
(***************************************************************************)

\* C35: a find_attribute on an attribute with a getter registered returns, and a
\* type-valid set_attribute on an attribute with a setter registered returns
\* having invoked that setter exactly once (and no setter is invoked otherwise);
\* this includes a getter registered for NodeId, whose node id is obtained
\* without locking the getter a second time.
C35_Claim_CallbacksReturnOnce ==
    [][ (node_ops' = node_ops + 1 /\ node_last'.op = "set_attribute") =>
        LET id == node_last'.attribute_id
            v == node_last'.value
        IN  /\ (attribute_getters[id] # None) =>
                    (node_last'.found.outcome = "return")
            /\ (attribute_setters[id] # None /\ TypeIsValid(id, v)) =>
                    /\ node_status' = "ok"
                    /\ setter_calls' = Append(setter_calls, <<id, v>>)
            /\ (attribute_setters[id] = None \/ ~TypeIsValid(id, v)) =>
                    /\ node_status' = "ok"
                    /\ setter_calls' = setter_calls ]_vars

====
